---------------------------- MODULE Spec2Model ----------------------------
(***************************************************************************)
(* Model of modules/demux/subtitle.c: the text subtitle demuxer.           *)
(*                                                                         *)
(* A line of text is a sequence of one-character strings, so that the      *)
(* sscanf() patterns of the source are modelled by what they do on the     *)
(* characters of a line.  Floating point values are kept in thousandths    *)
(* (the integer 1500 stands for 1.5).                                      *)
(***************************************************************************)
EXTENDS Integers, Sequences, FiniteSets, TLC

(***************************************************************************)
(* Return codes of <vlc/vlc.h>.                                            *)
(***************************************************************************)
VLC_SUCCESS  == "VLC_SUCCESS"
VLC_EGENERIC == "VLC_EGENERIC"
VLC_ENOMEM   == "VLC_ENOMEM"

(***************************************************************************)
(* Characters (<ctype.h>).                                                 *)
(***************************************************************************)
DigitChars == <<"0", "1", "2", "3", "4", "5", "6", "7", "8", "9">>
LowerChars == <<"a", "b", "c", "d", "e", "f", "g", "h", "i", "j", "k", "l", "m",
                "n", "o", "p", "q", "r", "s", "t", "u", "v", "w", "x", "y", "z">>
UpperChars == <<"A", "B", "C", "D", "E", "F", "G", "H", "I", "J", "K", "L", "M",
                "N", "O", "P", "Q", "R", "S", "T", "U", "V", "W", "X", "Y", "Z">>

Range(f) == {f[x] : x \in DOMAIN f}

Digits  == Range(DigitChars)
Letters == Range(LowerChars) \cup Range(UpperChars)
Spaces  == {" ", "\t", "\n", "\r", "\f"}

isdigit(c) == c \in Digits
isalpha(c) == c \in Letters
isspace(c) == c \in Spaces

toupper(c) ==
    IF c \in Range(LowerChars)
    THEN UpperChars[CHOOSE k \in 1..26 : LowerChars[k] = c]
    ELSE c

DigitVal(c) == (CHOOSE k \in 1..10 : DigitChars[k] = c) - 1

Min(S) == CHOOSE x \in S : \A y \in S : x <= y
Max(S) == CHOOSE x \in S : \A y \in S : x >= y

\* The element of a set of one element.  The({ e : x \in {v} }) is e with x
\* standing for the value of v, which is computed once.
The(S) == CHOOSE x \in S : TRUE

\* the text of s from position i on (a C pointer into the string)
Tail_(s, i) == SubSeq(s, i, Len(s))

\* first position p >= i of s whose character is not in the set C, Len(s)+1 if none
SpanEnd(s, i, C) ==
    Min({p \in i..Len(s) : s[p] \notin C} \cup {IF i > Len(s) THEN i ELSE Len(s) + 1})

\* first position p >= i of s whose character is in the set X, Len(s)+1 if none
SpanEndNot(s, i, X) ==
    Min({p \in i..Len(s) : s[p] \in X} \cup {IF i > Len(s) THEN i ELSE Len(s) + 1})

\* value of the decimal digits s[i..j-1], given the value acc of those before
RECURSIVE DigitsVal(_, _, _, _)
DigitsVal(s, i, j, acc) ==
    IF i >= j THEN acc ELSE DigitsVal(s, i + 1, j, acc * 10 + DigitVal(s[i]))

\* "%d" output: the decimal digits of a natural number
RECURSIVE NatDec(_)
NatDec(n) ==
    IF n < 10 THEN <<DigitChars[n + 1]>>
    ELSE NatDec(n \div 10) \o <<DigitChars[(n % 10) + 1]>>

\* printf's "%d"
Dec(n) == IF n < 0 THEN <<"-">> \o NatDec(-n) ELSE NatDec(n)

(***************************************************************************)
(* The number parsers of the C library.  Each returns ok (a number was     *)
(* read), its value and the position after it.                             *)
(***************************************************************************)
\* the position after an optional sign at position i, and the sign
AfterSign(s, i) == IF i <= Len(s) /\ s[i] \in {"+", "-"} THEN i + 1 ELSE i
Sign(s, i) == IF i <= Len(s) /\ s[i] = "-" THEN -1 ELSE 1

\* an optionally signed decimal integer at position i (no blanks skipped)
ReadInt(s, i) ==
    The({ [ok |-> e > b, val |-> Sign(s, i) * DigitsVal(s, b, e, 0), next |-> e] :
          e \in {SpanEnd(s, AfterSign(s, i), Digits)}, b \in {AfterSign(s, i)} })

\* the first three decimals s[fb..fe-1], as thousandths
Thousandths(s, fb, fe) ==
    DigitsVal(SubSeq(s, fb, Min({fe - 1, fb + 2})) \o
              [k \in 1..(3 - Min({fe - fb, 3})) |-> "0"], 1, 4, 0)

\* the decimals after the integer part s[b..e-1] of a number
ReadDecimals(s, i, b, e) ==
    IF e <= Len(s) /\ s[e] = "."
    THEN The({ [ok |-> e > b \/ fe > e + 1,
                val |-> Sign(s, i) * (DigitsVal(s, b, e, 0) * 1000
                                      + Thousandths(s, e + 1, fe)),
                next |-> IF e > b \/ fe > e + 1 THEN fe ELSE i] :
               fe \in {SpanEnd(s, e + 1, Digits)} })
    ELSE [ok |-> e > b, val |-> Sign(s, i) * DigitsVal(s, b, e, 0) * 1000,
          next |-> IF e > b THEN e ELSE i]

\* an optionally signed decimal number at position i, in thousandths
ReadFloat(s, i) ==
    The({ ReadDecimals(s, i, b, e) :
          e \in {SpanEnd(s, AfterSign(s, i), Digits)}, b \in {AfterSign(s, i)} })

\* strtol( s, &end, 0 ) / atoi( s ): leading blanks, then a decimal integer; 0 if none
strtol(s) ==
    The({ [val |-> IF r.ok THEN r.val ELSE 0, next |-> IF r.ok THEN r.next ELSE 1] :
          r \in {ReadInt(s, SpanEnd(s, 1, Spaces))} })

atoi(s) == strtol(s).val

\* us_strtod( s, NULL ), in thousandths; 0 if s does not start with a number
us_strtod(s) ==
    The({ IF r.ok THEN r.val ELSE 0 : r \in {ReadFloat(s, SpanEnd(s, 1, Spaces))} })

(***************************************************************************)
(* sscanf().  A format is a sequence of directives:                        *)
(*   Lit(c)      an ordinary character                                     *)
(*   Ws          white space in the format: skips any white space          *)
(*   PctD        %d          PctSkipD    %*d                               *)
(*   PctF        %f                                                        *)
(*   PctC        %c          PctSkipC    %*c                               *)
(*   PctNot(X,w) %[^X] of at most w characters (w = 0: no limit)           *)
(* The result is n, the value sscanf returns (the number of values stored, *)
(* or EOF when the input ends before the first of them), and v, the        *)
(* values stored, in order.                                                *)
(***************************************************************************)
EOF == -1

Lit(c)      == [d |-> "lit", c |-> c,  x |-> {}, w |-> 0, store |-> FALSE]
Ws          == [d |-> "ws",  c |-> "", x |-> {}, w |-> 0, store |-> FALSE]
PctD        == [d |-> "int", c |-> "", x |-> {}, w |-> 0, store |-> TRUE]
PctSkipD    == [d |-> "int", c |-> "", x |-> {}, w |-> 0, store |-> FALSE]
PctF        == [d |-> "flt", c |-> "", x |-> {}, w |-> 0, store |-> TRUE]
PctC        == [d |-> "chr", c |-> "", x |-> {}, w |-> 0, store |-> TRUE]
PctSkipC    == [d |-> "chr", c |-> "", x |-> {}, w |-> 0, store |-> FALSE]
PctNot(X, w) == [d |-> "set", c |-> "", x |-> X, w |-> w, store |-> TRUE]

\* the directives of a run of ordinary characters
Lits(cs) == [k \in 1..Len(cs) |-> IF cs[k] = " " THEN Ws ELSE Lit(cs[k])]

\* the input ended: EOF unless a value was stored already
InputFailure(acc) == IF acc.n = 0 THEN [acc EXCEPT !.n = EOF] ELSE acc

Stored(acc, f, val) ==
    IF f.store THEN [n |-> acc.n + 1, v |-> Append(acc.v, val)] ELSE acc

\* where a scan is: st is "on" (going on at position i of the input and
\* directive j of the format), "eof" (input failure) or "no" (matching
\* failure, or the end of the format); acc as far
At_(st, i, j, acc) == [st |-> st, i |-> i, j |-> j, acc |-> acc]

\* the ordinary characters and the white space of the format from directive j on
RECURSIVE Literals(_, _, _, _, _)
Literals(s, i, fmt, j, acc) ==
    CASE j > Len(fmt) -> At_("no", i, j, acc)
      [] j <= Len(fmt) /\ fmt[j].d = "ws" ->
           Literals(s, SpanEnd(s, i, Spaces), fmt, j + 1, acc)
      [] j <= Len(fmt) /\ fmt[j].d = "lit" ->
           CASE i > Len(s) -> At_("eof", i, j, acc)
             [] i <= Len(s) /\ s[i] = fmt[j].c -> Literals(s, i + 1, fmt, j + 1, acc)
             [] OTHER -> At_("no", i, j, acc)
      [] OTHER -> At_("on", i, j, acc)

\* the conversion f, directive j of the format, at position i
Conversion(s, i, f, j, acc) ==
    CASE f.d \in {"int", "flt"} ->
           The({ CASE k > Len(s) -> At_("eof", k, j, acc)
                   [] k <= Len(s) /\ ~r.ok -> At_("no", k, j, acc)
                   [] OTHER -> At_("on", r.next, j + 1, Stored(acc, f, r.val)) :
                 k \in {SpanEnd(s, i, Spaces)},
                 r \in {IF f.d = "int" THEN ReadInt(s, SpanEnd(s, i, Spaces))
                        ELSE ReadFloat(s, SpanEnd(s, i, Spaces))} })
      [] f.d = "chr" ->
           IF i > Len(s) THEN At_("eof", i, j, acc)
           ELSE At_("on", i + 1, j + 1, Stored(acc, f, s[i]))
      [] f.d = "set" ->
           The({ CASE i > Len(s) -> At_("eof", i, j, acc)
                   [] i <= Len(s) /\ e = i -> At_("no", i, j, acc)
                   [] OTHER -> At_("on", e, j + 1, Stored(acc, f, SubSeq(s, i, e - 1))) :
                 e \in {Min({SpanEndNot(s, i, f.x)}
                            \cup {i + f.w : w \in {f.w} \ {0}})} })

\* sscanf from position i of the input and directive j of the format
RECURSIVE ScanFrom(_, _, _, _, _)
ScanFrom(s, i, fmt, j, acc) ==
    The({ CASE p.st = "eof" -> InputFailure(p.acc)
            [] p.st = "no" -> p.acc
            [] OTHER ->
                 The({ CASE c.st = "eof" -> InputFailure(c.acc)
                         [] c.st = "no" -> c.acc
                         [] OTHER -> ScanFrom(s, c.i, fmt, c.j, c.acc) :
                       c \in {Conversion(s, p.i, fmt[p.j], p.j, p.acc)} }) :
          p \in {Literals(s, i, fmt, j, acc)} })

sscanf(s, fmt) ==
    The({ ScanFrom(s1, 1, fmt, 1, [n |-> 0, v |-> <<>>]) : s1 \in {s} })

(***************************************************************************)
(* <string.h>                                                              *)
(***************************************************************************)
upcase(s) == [k \in 1..Len(s) |-> toupper(s[k])]

\* !strncasecmp( s, t, Len(t) ): s starts with t, whatever the case
HasPrefixNoCase(s, t) ==
    Len(s) >= Len(t) /\ upcase(SubSeq(s, 1, Len(t))) = upcase(t)

\* strcasestr( s, t ): the position of the first occurrence of t in s, 0 if none
strcasestr(s, t) ==
    Min({p \in 1..(Len(s) - Len(t) + 1) : HasPrefixNoCase(Tail_(s, p), t)}
        \cup {Len(s) + 1}) % (Len(s) + 1)

\* strstr( s, t ), the same with the case kept
strstr(s, t) ==
    Min({p \in 1..(Len(s) - Len(t) + 1) : SubSeq(s, p, p + Len(t) - 1) = t}
        \cup {Len(s) + 1}) % (Len(s) + 1)

(***************************************************************************)
(* The subtitle types (the enum of the prototypes).                        *)
(***************************************************************************)
SUB_TYPE_UNKNOWN     == "SUB_TYPE_UNKNOWN"
SUB_TYPE_MICRODVD    == "SUB_TYPE_MICRODVD"
SUB_TYPE_SUBRIP      == "SUB_TYPE_SUBRIP"
SUB_TYPE_SSA1        == "SUB_TYPE_SSA1"
SUB_TYPE_SSA2_4      == "SUB_TYPE_SSA2_4"
SUB_TYPE_ASS         == "SUB_TYPE_ASS"
SUB_TYPE_VPLAYER     == "SUB_TYPE_VPLAYER"
SUB_TYPE_SAMI        == "SUB_TYPE_SAMI"
SUB_TYPE_SUBVIEWER   == "SUB_TYPE_SUBVIEWER"
SUB_TYPE_DVDSUBTITLE == "SUB_TYPE_DVDSUBTITLE"
SUB_TYPE_MPL2        == "SUB_TYPE_MPL2"
SUB_TYPE_AQT         == "SUB_TYPE_AQT"
SUB_TYPE_PJS         == "SUB_TYPE_PJS"
SUB_TYPE_MPSUB       == "SUB_TYPE_MPSUB"
SUB_TYPE_JACOSUB     == "SUB_TYPE_JACOSUB"

(***************************************************************************)
(* text_t: the lines of the file and the read position.                    *)
(***************************************************************************)
NoText == [line |-> <<>>, i_line |-> 0, i_line_count |-> 0]

\* TextGetLine: s is the line read; null when there is none left
TextGetLine(txt) ==
    IF txt.i_line >= txt.i_line_count
    THEN [null |-> TRUE, s |-> <<>>, txt |-> txt]
    ELSE [null |-> FALSE, s |-> txt.line[txt.i_line + 1],
          txt |-> [txt EXCEPT !.i_line = @ + 1]]

\* TextPreviousLine without its test of txt->i_line > 0
TextPreviousLineAlways(txt) == [txt EXCEPT !.i_line = @ - 1]

TextPreviousLine(txt) ==
    IF txt.i_line > 0 THEN [txt EXCEPT !.i_line = @ - 1] ELSE txt

\* the lines still to read
LinesFrom(txt) == (txt.i_line + 1)..txt.i_line_count

\* for( ;; ) { s = TextGetLine( txt ); if( !s ) ...; if( ... ) break; } with hits
\* the lines still to read that end the loop: the lines are read up to the
\* first of them, which is s; null, all the lines read, when there is none
SkipToLine(txt, hits) ==
    The({ IF k > txt.i_line_count
          THEN [null |-> TRUE, s |-> <<>>,
                txt |-> [txt EXCEPT !.i_line = Max({@, txt.i_line_count})]]
          ELSE [null |-> FALSE, s |-> txt.line[k], txt |-> [txt EXCEPT !.i_line = k]] :
          k \in {Min(hits \cup {txt.i_line_count + 1})} })

\* the loop that ends at the first line for which a sscanf( s, fmt ) == n, tests
\* being the set of these [fmt, n]
Matches(s, tests) == \E t \in tests : sscanf(s, t.fmt).n = t.n

SkipTo(txt, tests) ==
    SkipToLine(txt, {i \in LinesFrom(txt) : Matches(txt.line[i], tests)})

(***************************************************************************)
(* The readers.  Each takes                                                *)
(*   d    what a reader reads and writes besides the cue: the demux_sys_t  *)
(*        fields txt, i_type, i_microsecperframe and psz_header, the       *)
(*        "sub-fps" variable of the demux object, and the static variables *)
(*        of ParseMPSub and ParseJSS;                                      *)
(*   sub  the subtitle_t it fills, as the memory holds it at the call;     *)
(*   e    what the call meets: oom, an allocation whose result is tested   *)
(*        fails; crash and junk, how undefined behaviour turns out (the    *)
(*        process dies, or goes on with junk as the value read).           *)
(* and returns rc (its return value, or CRASH), d and sub as it leaves     *)
(* them, and undef: the call ran into undefined behaviour.                 *)
(***************************************************************************)
CRASH == "CRASH"

Ret(rc, d, sub) == [rc |-> rc, d |-> d, sub |-> sub, undef |-> FALSE]

\* undefined behaviour: the process dies, or goes on to the result r
Undefined(e, r) ==
    IF e.crash THEN [r EXCEPT !.rc = CRASH, !.undef = TRUE]
    ELSE [r EXCEPT !.undef = TRUE]

JunkText(junk) == IF junk = 0 THEN <<>> ELSE <<"?">>

\* ( h:m:s.ms ) in microseconds, ms in milliseconds
StampUs(h, m, s, ms) == (h * 3600 * 1000 + m * 60 * 1000 + s * 1000 + ms) * 1000

\* each character from of s replaced by the character to
Subst(s, from, to) == [k \in 1..Len(s) |-> IF s[k] = from THEN to ELSE s[k]]

NotEol == PctNot({"\r", "\n"}, 0)

\* (int64_t)( (float)1000000 / f_fps ), f_fps in thousandths
MicrosecPerFrame(f_fps) == (1000000 * 1000) \div f_fps

FmtMicroDvdOpen == <<Lit("{"), PctD, Lit("}"), Lit("{"), Lit("}"), NotEol>>
FmtMicroDvd     == <<Lit("{"), PctD, Lit("}"), Lit("{"), PctD, Lit("}"), NotEol>>

RECURSIVE ParseMicroDvd(_, _, _)

\* a line of ParseMicroDvd that matched: a cue, or {1}{1}fps and the next line
MicroDvdCue(d, sub, e, i_start, i_stop, psz_text) ==
    IF i_start # 1 \/ i_stop # 1
    THEN Ret(VLC_SUCCESS, d,
             [i_start  |-> i_start * d.i_microsecperframe,
              i_stop   |-> i_stop * d.i_microsecperframe,
              psz_text |-> Subst(psz_text, "|", "\n")])
    ELSE The({ IF f_fps > 0 /\ d.sub_fps <= 0
               THEN The({ ParseMicroDvd(d2, sub, e) :
                          d2 \in {[d EXCEPT !.i_microsecperframe =
                                                MicrosecPerFrame(f_fps)]} })
               ELSE ParseMicroDvd(d, sub, e) :
               f_fps \in {us_strtod(psz_text)} })

\* a reader whose first allocation fails: the first line is read, if any
NoMemory(d, sub) ==
    The({ Ret(IF g.null THEN VLC_EGENERIC ELSE VLC_ENOMEM,
              [d EXCEPT !.txt = g.txt], sub) :
          g \in {TextGetLine(d.txt)} })

ParseMicroDvd(d, sub, e) ==
    IF e.oom THEN NoMemory(d, sub)
    ELSE The({ The({
        IF g.null THEN Ret(VLC_EGENERIC, d1, sub)
        ELSE IF r1.n = 2 THEN MicroDvdCue(d1, sub, e, r1.v[1], 0, r1.v[2])
        ELSE MicroDvdCue(d1, sub, e, r2.v[1], r2.v[2], r2.v[3]) :
        d1 \in {[d EXCEPT !.txt = g.txt]},
        r1 \in {sscanf(g.s, FmtMicroDvdOpen)},
        r2 \in {sscanf(g.s, FmtMicroDvd)} }) :
        g \in {SkipTo(d.txt, {[fmt |-> FmtMicroDvdOpen, n |-> 2],
                              [fmt |-> FmtMicroDvd, n |-> 3]})} })

FmtSubRip ==
    <<PctD, Lit(":"), PctD, Lit(":"), PctD, Lit(","), PctD, Ws,
      Lit("-"), Lit("-"), Lit(">"), Ws,
      PctD, Lit(":"), PctD, Lit(":"), PctD, Lit(","), PctD>>
FmtSubViewer ==
    <<PctD, Lit(":"), PctD, Lit(":"), PctD, Lit("."), PctD, Lit(","),
      PctD, Lit(":"), PctD, Lit(":"), PctD, Lit("."), PctD>>

\* while( ( p = strstr( psz_text, "[br]" ) ) ) : each "[br]" becomes a line break
RECURSIVE ReplaceBr(_)
ReplaceBr(s) ==
    The({ IF p = 0 THEN s
          ELSE The({ ReplaceBr(s1) :
                     s1 \in {SubSeq(s, 1, p - 1) \o <<"\n">> \o Tail_(s, p + 4)} }) :
          p \in {strstr(s, <<"[", "b", "r", "]">>)} })

\* a faulty variant of SubRipText: the text read when the input ends is
\* returned as a cue
RECURSIVE SubRipTextToEnd(_, _, _, _)
SubRipTextToEnd(d, sub, psz_text, b_replace_br) ==
    The({ The({
        IF g.null \/ Len(g.s) <= 0
        THEN Ret(VLC_SUCCESS, d1, [sub EXCEPT !.psz_text = psz_text])
        ELSE The({ SubRipTextToEnd(d1, sub, t, b_replace_br) :
                   t \in {IF b_replace_br
                          THEN ReplaceBr(psz_text \o g.s \o <<"\n">>)
                          ELSE psz_text \o g.s \o <<"\n">>} }) :
        d1 \in {[d EXCEPT !.txt = g.txt]} }) :
        g \in {TextGetLine(d.txt)} })

\* the second loop of ParseSubRipSubViewer: text until an empty line
RECURSIVE SubRipText(_, _, _, _)
SubRipText(d, sub, psz_text, b_replace_br) ==
    The({ The({
        IF g.null THEN Ret(VLC_EGENERIC, d1, sub)
        ELSE IF Len(g.s) <= 0
        THEN Ret(VLC_SUCCESS, d1, [sub EXCEPT !.psz_text = psz_text])
        ELSE The({ SubRipText(d1, sub, t, b_replace_br) :
                   t \in {IF b_replace_br
                          THEN ReplaceBr(psz_text \o g.s \o <<"\n">>)
                          ELSE psz_text \o g.s \o <<"\n">>} }) :
        d1 \in {[d EXCEPT !.txt = g.txt]} }) :
        g \in {TextGetLine(d.txt)} })

\* the times of a line "h:m:s,ms --> h:m:s,ms" (or the like) that sscanf read
SubRipTimes(sub, v) ==
    [sub EXCEPT !.i_start = StampUs(v[1], v[2], v[3], v[4]),
                !.i_stop  = StampUs(v[5], v[6], v[7], v[8])]

ParseSubRipSubViewer(d, sub, e, psz_fmt, b_replace_br) ==
    The({ The({
        IF g.null THEN Ret(VLC_EGENERIC, d1, sub)
        ELSE IF e.oom THEN Ret(VLC_ENOMEM, d1, timed)
        ELSE SubRipText(d1, timed, <<>>, b_replace_br) :
        d1 \in {[d EXCEPT !.txt = g.txt]},
        timed \in {IF g.null THEN sub ELSE SubRipTimes(sub, sscanf(g.s, psz_fmt).v)} }) :
        g \in {SkipTo(d.txt, {[fmt |-> psz_fmt, n |-> 8]})} })

ParseSubRip(d, sub, e) == ParseSubRipSubViewer(d, sub, e, FmtSubRip, FALSE)

ParseSubViewer(d, sub, e) == ParseSubRipSubViewer(d, sub, e, FmtSubViewer, TRUE)

FmtSSA ==
    Lits(<<"D", "i", "a", "l", "o", "g", "u", "e", ":", " ">>) \o
    <<PctNot({","}, 15), Lit(","),
      PctD, Lit(":"), PctD, Lit(":"), PctD, Lit("."), PctD, Lit(","),
      PctD, Lit(":"), PctD, Lit(":"), PctD, Lit("."), PctD, Lit(","), NotEol>>

\* snprintf( temp, sizeof(temp), "%d,%d,", i_idx, i_layer ), temp being char[16]
SSAPrefix(i_idx, i_layer) ==
    The({ SubSeq(full, 1, Min({Len(full), 15})) :
          full \in {Dec(i_idx) \o <<",">> \o Dec(i_layer) \o <<",">>} })

\* the text of a Dialogue line of ParseSSA, v being what sscanf read
SSAText(i_type, i_idx, v) ==
    IF i_type = SUB_TYPE_SSA1 THEN <<",">> \o v[10]
    ELSE SSAPrefix(i_idx, IF i_type = SUB_TYPE_ASS THEN atoi(v[1]) ELSE 0) \o v[10]

\* the lines a to b of line, each with a line break after it
RECURSIVE Joined(_, _, _)
Joined(line, a, b) ==
    IF a > b THEN <<>>
    ELSE IF a = b THEN line[a] \o <<"\n">>
    ELSE The({ Joined(line, a, m) \o Joined(line, m + 1, b) : m \in {(a + b) \div 2} })

\* ParseSSA keeping in the header only the lines it skipped last
SSAHeaderLast(d, txt, a, b) ==
    IF a > b THEN [d EXCEPT !.txt = txt]
    ELSE [d EXCEPT !.txt = txt, !.header_null = FALSE,
                   !.psz_header = Joined(d.txt.line, a, b)]

\* ParseSSA adds the lines it skips, a to b, to the header
SSAHeader(d, txt, a, b) ==
    IF a > b THEN [d EXCEPT !.txt = txt]
    ELSE [d EXCEPT !.txt = txt, !.header_null = FALSE,
                   !.psz_header = @ \o Joined(d.txt.line, a, b)]

ParseSSA(d, sub, e, i_idx) ==
    IF e.oom THEN NoMemory(d, sub)
    ELSE The({ The({
        IF g.null THEN Ret(VLC_EGENERIC, d1, sub)
        ELSE The({ Ret(VLC_SUCCESS, d1,
                       [i_start  |-> StampUs(v[2], v[3], v[4], v[5] * 10),
                        i_stop   |-> StampUs(v[6], v[7], v[8], v[9] * 10),
                        psz_text |-> SSAText(d1.i_type, i_idx, v)]) :
                   v \in {sscanf(g.s, FmtSSA).v} }) :
        d1 \in {SSAHeader(d, g.txt, d.txt.i_line + 1,
                          IF g.null THEN g.txt.i_line ELSE g.txt.i_line - 1)} }) :
        g \in {SkipTo(d.txt, {[fmt |-> FmtSSA, n |-> 10]})} })

FmtVplayer == <<PctD, Lit(":"), PctD, Lit(":"), PctD, PctSkipC, NotEol>>

ParseVplayer(d, sub, e) ==
    IF e.oom THEN NoMemory(d, sub)
    ELSE The({ The({
        IF g.null THEN Ret(VLC_EGENERIC, d1, sub)
        ELSE Ret(VLC_SUCCESS, d1,
                 [i_start  |-> StampUs(r.v[1], r.v[2], r.v[3], 0),
                  i_stop   |-> 0,
                  psz_text |-> Subst(r.v[4], "|", "\n")]) :
        d1 \in {[d EXCEPT !.txt = g.txt]},
        r \in {sscanf(g.s, FmtVplayer)} }) :
        g \in {SkipTo(d.txt, {[fmt |-> FmtVplayer, n |-> 4]})} })

(***************************************************************************)
(* SAMI.  A char pointer is null or the rest of a line from the character  *)
(* it points to.                                                           *)
(***************************************************************************)
NullPtr == [null |-> TRUE, s |-> <<>>]
Ptr(s)  == [null |-> FALSE, s |-> s]

StartEq == <<"S", "t", "a", "r", "t", "=">>

\* the loop of ParseSamiSearch: the first line to come that holds psz_str
SamiSearchLines(txt, psz_str) ==
    The({ [txt |-> g.txt,
           p |-> IF g.null THEN NullPtr
                 ELSE Ptr(Tail_(g.s, strcasestr(g.s, psz_str) + Len(psz_str)))] :
          g \in {SkipToLine(txt, {i \in LinesFrom(txt) :
                                    strcasestr(txt.line[i], psz_str) > 0})} })

ParseSamiSearch(txt, psz_start, psz_str) ==
    The({ IF ~psz_start.null /\ k > 0
          THEN [txt |-> txt, p |-> Ptr(Tail_(psz_start.s, k + Len(psz_str)))]
          ELSE SamiSearchLines(txt, psz_str) :
          k \in {strcasestr(psz_start.s, psz_str)} })

\* char text[8192]
SamiTextSize == 8192

\* c appended to text, when the buffer has room
SamiPut(text, c) ==
    IF Len(text) + 1 < SamiTextSize THEN Append(text, c) ELSE text

\* while( s && *s == '\0' ) s = TextGetLine( txt );
SamiNonEmpty(txt, p) ==
    IF ~p.null /\ p.s = <<>>
    THEN The({ [txt |-> g.txt, p |-> IF g.null THEN NullPtr ELSE Ptr(g.s)] :
               g \in {SkipToLine(txt, {i \in LinesFrom(txt) : txt.line[i] # <<>>})} })
    ELSE [txt |-> txt, p |-> p]

RECURSIVE SamiText(_, _, _)

\* one turn of the loop of ParseSami at s, the non-empty rest of a line
SamiChar(txt, s, text) ==
    IF s[1] = "<"
    THEN IF HasPrefixNoCase(s, <<"<", "b", "r">>)
         THEN The({ SamiText(tag.txt, tag.p, t) :
                    tag \in {ParseSamiSearch(txt, Ptr(s), <<">">>)},
                    t \in {SamiPut(text, "\n")} })
         ELSE IF strcasestr(s, StartEq) > 0
         THEN [txt |-> TextPreviousLine(txt), text |-> text]
         ELSE The({ SamiText(tag.txt, tag.p, text) :
                    tag \in {ParseSamiSearch(txt, Ptr(s), <<">">>)} })
    ELSE The({ SamiText(txt, Ptr(rest), t) :
               rest \in {IF Len(s) >= 6 /\ SubSeq(s, 1, 6) = <<"&", "n", "b", "s", "p", ";">>
                         THEN Tail_(s, 7) ELSE Tail_(s, 2)},
               t \in {SamiPut(text,
                              IF Len(s) >= 6 /\ SubSeq(s, 1, 6) = <<"&", "n", "b", "s", "p", ";">>
                              THEN " "
                              ELSE IF s[1] = "\t" THEN " " ELSE s[1])} })

\* the loop of ParseSami that gets the text up to a "Start=" line
SamiText(txt, p0, text) ==
    The({ IF n.p.null THEN [txt |-> n.txt, text |-> text]
          ELSE SamiChar(n.txt, n.p.s, text) :
          n \in {SamiNonEmpty(txt, p0)} })

\* ParseSami from the "<P" on, f1 being where "Start=" was found and n the number read
SamiCue(d, sub, f1, n) ==
    The({ IF f2.p.null THEN Ret(VLC_EGENERIC, [d EXCEPT !.txt = f2.txt], sub)
          ELSE The({
              IF f3.p.null THEN Ret(VLC_EGENERIC, [d EXCEPT !.txt = f3.txt], sub)
              ELSE The({ Ret(VLC_SUCCESS, [d EXCEPT !.txt = t.txt],
                             [i_start |-> n.val * 1000, i_stop |-> 0,
                              psz_text |-> t.text]) :
                         t \in {SamiText(f3.txt, f3.p, <<>>)} }) :
              f3 \in {ParseSamiSearch(f2.txt, f2.p, <<">">>)} }) :
          f2 \in {ParseSamiSearch(f1.txt, Ptr(Tail_(f1.p.s, n.next)), <<"<", "P">>)} })

ParseSami(d, sub, e) ==
    The({ IF f1.p.null THEN Ret(VLC_EGENERIC, [d EXCEPT !.txt = f1.txt], sub)
          ELSE The({ SamiCue(d, sub, f1, n) : n \in {strtol(f1.p.s)} }) :
          f1 \in {ParseSamiSearch(d.txt, NullPtr, StartEq)} })

FmtDVDSubtitle ==
    <<Lit("{"), Lit("T"), Ws, PctD, Lit(":"), PctD, Lit(":"), PctD, Lit(":"), PctD>>

\* the second loop of ParseDVDSubtitle: text until a line that is "}"
RECURSIVE DVDSubtitleText(_, _, _)
DVDSubtitleText(d, sub, psz_text) ==
    The({ The({
        IF g.null THEN Ret(VLC_EGENERIC, d1, sub)
        ELSE IF Len(g.s) = 1 /\ g.s[1] = "}"
        THEN Ret(VLC_SUCCESS, d1, [sub EXCEPT !.psz_text = psz_text])
        ELSE DVDSubtitleText(d1, sub, t) :
        d1 \in {[d EXCEPT !.txt = g.txt]},
        t \in {psz_text \o g.s \o <<"\n">>} }) :
        g \in {TextGetLine(d.txt)} })

ParseDVDSubtitle(d, sub, e) ==
    The({ The({
        IF g.null THEN Ret(VLC_EGENERIC, d1, sub)
        ELSE IF e.oom THEN Ret(VLC_ENOMEM, d1, timed)
        ELSE DVDSubtitleText(d1, timed, <<>>) :
        d1 \in {[d EXCEPT !.txt = g.txt]},
        timed \in {IF g.null THEN sub
                   ELSE The({ [sub EXCEPT
                                 !.i_start = StampUs(v[1], v[2], v[3], v[4] * 10),
                                 !.i_stop  = 0] :
                              v \in {sscanf(g.s, FmtDVDSubtitle).v} })} }) :
        g \in {SkipTo(d.txt, {[fmt |-> FmtDVDSubtitle, n |-> 4]})} })

FmtMPL2Open == <<Lit("["), PctD, Lit("]"), Lit("["), Lit("]"), Ws, NotEol>>
FmtMPL2     == <<Lit("["), PctD, Lit("]"), Lit("["), PctD, Lit("]"), Ws, NotEol>>

\* the last loop of ParseMPL2, from position i (counted from 1) of the text
RECURSIVE MPL2Text(_, _)
MPL2Text(s, i) ==
    IF i > Len(s) THEN s
    ELSE The({ IF s1[i] = "/" /\ (i = 1 \/ s1[i - 1] = "\n")
               THEN The({ MPL2Text(s2, i) :
                          s2 \in {SubSeq(s1, 1, i - 1) \o Tail_(s1, i + 1)} })
               ELSE MPL2Text(s1, i + 1) :
               s1 \in {IF s[i] = "|" THEN [s EXCEPT ![i] = "\n"] ELSE s} })

\* the cue of a line of ParseMPL2 that matched
MPL2Cue(d, sub, i_start, i_stop, psz_text) ==
    Ret(VLC_SUCCESS, d,
        [i_start  |-> i_start * 100000,
         i_stop   |-> i_stop * 100000,
         psz_text |-> MPL2Text(psz_text, 1)])

ParseMPL2(d, sub, e) ==
    IF e.oom THEN NoMemory(d, sub)
    ELSE The({ The({
        IF g.null THEN Ret(VLC_EGENERIC, d1, sub)
        ELSE IF r1.n = 2 THEN MPL2Cue(d1, sub, r1.v[1], 0, r1.v[2])
        ELSE MPL2Cue(d1, sub, r2.v[1], r2.v[2], r2.v[3]) :
        d1 \in {[d EXCEPT !.txt = g.txt]},
        r1 \in {sscanf(g.s, FmtMPL2Open)},
        r2 \in {sscanf(g.s, FmtMPL2)} }) :
        g \in {SkipTo(d.txt, {[fmt |-> FmtMPL2Open, n |-> 2],
                              [fmt |-> FmtMPL2, n |-> 3]})} })

FmtAQT == <<Lit("-"), Lit("-"), Lit(">"), Lit(">"), Ws, PctD>>

\* the cue ParseAQT returns; its times are read though no "-->>" line set them
\* unless timed
AQTCue(d, sub, psz_text, timed) ==
    [Ret(VLC_SUCCESS, d, [sub EXCEPT !.psz_text = psz_text]) EXCEPT !.undef = ~timed]

\* the loop of ParseAQT; timed: a "-->>" line set the times of sub in this call
RECURSIVE AQTLoop(_, _, _, _, _, _)
AQTLoop(d, sub, e, psz_text, i_firstline, timed) ==
    The({ The({
        IF g.null THEN Ret(VLC_EGENERIC, d1, sub)
        ELSE IF r.n = 1
        THEN The({ IF i_firstline
                   THEN AQTLoop(d1, marked, e, psz_text, FALSE, TRUE)
                   ELSE AQTCue([d1 EXCEPT !.txt.i_line = @ - 1], marked, psz_text, TRUE) :
                   marked \in {[sub EXCEPT !.i_start = r.v[1], !.i_stop = 0]} })
        ELSE IF e.oom THEN Ret(VLC_ENOMEM, d1, sub)
        ELSE The({ IF d1.txt.i_line = d1.txt.i_line_count
                   THEN AQTCue(d1, sub, t, timed)
                   ELSE AQTLoop(d1, sub, e, t, i_firstline, timed) :
                   t \in {psz_text \o g.s \o <<"\n">>} }) :
        d1 \in {[d EXCEPT !.txt = g.txt]},
        r \in {sscanf(g.s, FmtAQT)} }) :
        g \in {TextGetLine(d.txt)} })

ParseAQT(d, sub, e) == AQTLoop(d, sub, e, <<>>, TRUE, FALSE)

FmtPJS == <<PctD, Lit(","), PctD, Lit(","), Lit("\""), PctNot({"\n", "\r"}, 0)>>

ParsePJS(d, sub, e) ==
    The({ The({
        IF g.null THEN Ret(VLC_EGENERIC, d1, sub)
        ELSE Ret(VLC_SUCCESS, d1,
                 [i_start  |-> 10 * r.v[1],
                  i_stop   |-> 10 * r.v[2],
                  psz_text |-> SubSeq(r.v[3], 1, Len(r.v[3]) - 1)]) :
        d1 \in {[d EXCEPT !.txt = g.txt]},
        r \in {sscanf(g.s, FmtPJS)} }) :
        g \in {SkipTo(d.txt, {[fmt |-> FmtPJS, n |-> 3]})} })

FmtMPSubTime   == Lits(<<"F", "O", "R", "M", "A", "T", "=", "T", "I", "M">>) \o <<PctC>>
FmtMPSubFormat == Lits(<<"F", "O", "R", "M", "A", "T", "=">>) \o <<NotEol>>
FmtMPSubData   == <<PctF, Ws, PctF>>

\* the second loop of ParseMPSub: text until an empty line
RECURSIVE MPSubText(_, _, _, _)
MPSubText(d, sub, e, psz_text) ==
    The({ The({
        IF g.null THEN Ret(VLC_EGENERIC, d1, sub)
        ELSE IF Len(g.s) = 0
        THEN Ret(VLC_SUCCESS, d1, [sub EXCEPT !.psz_text = psz_text])
        ELSE IF e.oom THEN Ret(VLC_ENOMEM, d1, sub)
        ELSE MPSubText(d1, sub, e, t) :
        d1 \in {[d EXCEPT !.txt = g.txt]},
        t \in {psz_text \o g.s \o <<"\n">>} }) :
        g \in {TextGetLine(d.txt)} })

\* a cue returned with the times the memory held: reading them is undefined
Untimed(r) == IF r.rc = VLC_SUCCESS THEN [r EXCEPT !.undef = TRUE] ELSE r

\* the line is "FORMAT=TIME"
MPSubTime(s) ==
    The({ r.n = 1 /\ r.v = <<"E">> : r \in {sscanf(s, FmtMPSubTime)} })

\* a line that ends the first loop of ParseMPSub
MPSubLine(s) ==
    \/ MPSubTime(s)
    \/ sscanf(s, FmtMPSubFormat).n # 0
    \/ sscanf(s, FmtMPSubData).n = 2

\* the "FORMAT=" line s that is not "FORMAT=TIME", rf being what sscanf made of it
MPSubFormat(d, sub, e, rf) ==
    IF rf.n = EOF
    THEN \* psz_temp is read though sscanf stored nothing in it
         The({ Undefined(e, Untimed(MPSubText(dfmt, sub, e, <<>>))) :
               dfmt \in {[d EXCEPT !.mpsub_factor = 1,
                                   !.sub_fps = IF e.junk > 0 /\ @ <= 0
                                               THEN e.junk ELSE @]} })
    ELSE The({ Untimed(MPSubText(dfmt, sub, e, <<>>)) :
               dfmt \in {The({ [d EXCEPT !.mpsub_factor = 1,
                                         !.sub_fps = IF f_fps > 0 /\ @ <= 0
                                                     THEN f_fps ELSE @] :
                               f_fps \in {us_strtod(rf.v[1])} })} })

\* the data line of ParseMPSub counting from zero, not from the running total
MPSubDataFromZero(d, sub, e, f1, f2) ==
    The({ The({ MPSubText(d2, timed, e, <<>>) :
                d2 \in {[d EXCEPT !.mpsub_total = t2]},
                timed \in {[sub EXCEPT !.i_start = 10 * t1, !.i_stop = 10 * t2]} }) :
          t1 \in {f1 * d.mpsub_factor},
          t2 \in {f1 * d.mpsub_factor + f2 * d.mpsub_factor} })

\* the data line of ParseMPSub, f1 and f2 being the numbers read
MPSubData(d, sub, e, f1, f2) ==
    The({ The({ MPSubText(d2, timed, e, <<>>) :
                d2 \in {[d EXCEPT !.mpsub_total = t2]},
                timed \in {[sub EXCEPT !.i_start = 10 * t1, !.i_stop = 10 * t2]} }) :
          t1 \in {d.mpsub_total + f1 * d.mpsub_factor},
          t2 \in {d.mpsub_total + f1 * d.mpsub_factor + f2 * d.mpsub_factor} })

ParseMPSub(d, sub, e) ==
    The({ The({
        IF g.null THEN Ret(VLC_EGENERIC, d1, sub)
        ELSE IF MPSubTime(g.s)
        THEN The({ Untimed(MPSubText(d2, sub, e, <<>>)) :
                   d2 \in {[d1 EXCEPT !.mpsub_factor = 100]} })
        ELSE IF rf.n # 0 THEN MPSubFormat(d1, sub, e, rf)
        ELSE The({ MPSubData(d1, sub, e, rd.v[1], rd.v[2]) :
                   rd \in {sscanf(g.s, FmtMPSubData)} }) :
        d1 \in {[d EXCEPT !.txt = g.txt]},
        rf \in {sscanf(g.s, FmtMPSubFormat)} }) :
        g \in {SkipToLine(d.txt, {i \in LinesFrom(d.txt) : MPSubLine(d.txt.line[i])})} })

(***************************************************************************)
(* JacoSub.                                                                *)
(***************************************************************************)
\* s[k], the terminating NUL ("") from the end of s on
At(s, k) == IF k <= Len(s) THEN s[k] ELSE ""

\* the k-th value a sscanf stored, or what the variable held before
Nth(r, k, before) == IF Len(r.v) >= k THEN r.v[k] ELSE before

Abs(a) == IF a < 0 THEN -a ELSE a

\* a / b of C, for b # 0: the quotient truncated toward zero
CDiv(a, b) ==
    IF (a >= 0) = (b > 0) THEN Abs(a) \div Abs(b) ELSE -(Abs(a) \div Abs(b))

FmtJSS ==
    <<PctD, Lit(":"), PctD, Lit(":"), PctD, Lit("."), PctD, Ws,
      PctD, Lit(":"), PctD, Lit(":"), PctD, Lit("."), PctD, Ws,
      PctNot({"\n", "\r"}, 0)>>
FmtJSSFrames ==
    <<Lit("@"), PctD, Ws, Lit("@"), PctD, Ws, PctNot({"\n", "\r"}, 0)>>

FmtJssH    == <<PctD>>
FmtJssM    == <<PctSkipD, Lit(":"), PctD>>
FmtJssS    == <<PctSkipD, Lit(":"), PctSkipD, Lit(":"), PctD>>
FmtJssF    == <<PctSkipD, Lit(":"), PctSkipD, Lit(":"), PctSkipD, Lit("."), PctD>>
FmtJssMSF  == <<PctD, Lit(":"), PctD, Lit("."), PctD>>
FmtJssSF   == <<PctD, Lit("."), PctD>>

\* h, m, s and f of case 'S' once the hours h0 are read, inv being their sign
JssShiftFields(a, h0, inv) ==
    The({ IF rm.n # 0
          THEN IF rs.n # 0
               THEN <<Abs(h0), Nth(rm, 1, 0), Nth(rs, 1, 1), Nth(rf, 1, 1)>>
               ELSE <<0, Nth(r3, 1, Nth(rm, 1, 0)) * inv, Nth(r3, 2, 1), Nth(r3, 3, 1)>>
          ELSE <<0, 0, Nth(r2, 1, 1) * inv, Nth(r2, 2, 1)>> :
          rm \in {sscanf(a, FmtJssM)}, rs \in {sscanf(a, FmtJssS)},
          rf \in {sscanf(a, FmtJssF)}, r3 \in {sscanf(a, FmtJssMSF)},
          r2 \in {sscanf(a, FmtJssSF)} })

\* case 'S' of the directives: the time shift the text a of the directive asks
\* for, or the one in force when it holds no number
JssTimeShift(a, jss_time_shift, jss_time_resolution) ==
    The({ IF r0.n # 0
          THEN The({ ((x[1] * 3600 + x[2] * 60 + x[3]) * jss_time_resolution + x[4])
                     * inv :
                     x \in {JssShiftFields(a, Nth(r0, 1, 0),
                                           IF Nth(r0, 1, 0) < 0 THEN -1 ELSE 1)},
                     inv \in {IF Nth(r0, 1, 0) < 0 THEN -1 ELSE 1} })
          ELSE jss_time_shift :
          r0 \in {sscanf(a, FmtJssH)} })

\* how far from the '#' the text of a directive starts
JssShift(s) ==
    IF toupper(At(s, 2)) = "S" THEN (IF isalpha(At(s, 3)) THEN 6 ELSE 2)
    ELSE (IF isalpha(At(s, 3)) THEN 8 ELSE 2)

\* a line that starts with '#': d with the directive applied, and undef when
\* the directive is read past the end of the line
JssDirective(d, s, e) ==
    The({ CASE c1 = "S" ->
                 [d |-> [d EXCEPT !.jss_time_shift =
                            JssTimeShift(a, @, d.jss_time_resolution)],
                  undef |-> JssShift(s) > Len(s)]
            [] c1 = "T" ->
                 [d |-> [d EXCEPT !.jss_time_resolution =
                            Nth(sscanf(a, FmtJssH), 1, @)],
                  undef |-> JssShift(s) > Len(s)]
            [] OTHER -> [d |-> d, undef |-> FALSE] :
          c1 \in {toupper(At(s, 2))},
          a \in {IF JssShift(s) > Len(s) THEN JunkText(e.junk)
                 ELSE Tail_(s, JssShift(s) + 1)} })

\* where the loop over the text of a cue is: s is the text from psz_text on,
\* out what psz_text2 holds; st is "on", or "end" when the loop is over.
\* eof: the line to splice is missing; undef: psz_text went past the end of
\* the line
JssAt(st, s, out, i_comment, txt, eof, undef) ==
    [st |-> st, s |-> s, out |-> out, i_comment |-> i_comment, txt |-> txt,
     eof |-> eof, undef |-> undef]

JssOn(s, out, i_comment, txt) == JssAt("on", s, out, i_comment, txt, FALSE, FALSE)

\* *psz_text2 = x; psz_text2++; unless in a comment
JssEmit(out, i_comment, x) == IF i_comment = 0 THEN Append(out, x) ELSE out

\* case '\\' of the loop, n being the character after the backslash
JssEscape(s, n, out, i_comment, txt) ==
    IF n = "n" THEN JssOn(Tail_(s, 3), Append(out, "\n"), i_comment, txt)
    ELSE IF toupper(n) \in {"C", "F"}
    THEN IF Len(s) < 3 THEN JssAt("end", s, out, i_comment, txt, FALSE, TRUE)
         ELSE JssOn(Tail_(s, 4), out, i_comment, txt)
    ELSE IF n \in {"B", "b", "I", "i", "U", "u", "D", "N"}
    THEN JssOn(Tail_(s, 3), out, i_comment, txt)
    ELSE IF n \in {"~", "{", "\\"}
    THEN JssOn(Tail_(s, 3), JssEmit(out, i_comment, n), i_comment, txt)
    ELSE IF n \in {"\r", "\n", ""}
    THEN The({ IF g.null THEN JssAt("end", s, out, i_comment, g.txt, TRUE, FALSE)
               ELSE JssOn(Tail_(s, 2), JssEmit(out, i_comment, "\\"), i_comment, g.txt) :
               g \in {TextGetLine(txt)} })
    ELSE JssOn(Tail_(s, 2), JssEmit(out, i_comment, "\\"), i_comment, txt)

\* one turn of the loop
JssStep(s, c, n, out, i_comment, txt) ==
    IF c \in {"", "\n", "\r"} THEN JssAt("end", s, out, i_comment, txt, FALSE, FALSE)
    ELSE CASE c = "{" -> JssOn(Tail_(s, 2), out, i_comment + 1, txt)
           [] c = "}" ->
                IF i_comment # 0
                THEN JssOn(Tail_(s, IF n = " " THEN 3 ELSE 2), out, 0, txt)
                ELSE JssOn(Tail_(s, 2), out, i_comment, txt)
           [] c = "~" -> JssOn(Tail_(s, 2), JssEmit(out, i_comment, " "), i_comment, txt)
           [] c \in {" ", "\t"} ->
                IF n \in {" ", "\t"}
                THEN JssOn(Tail_(s, 2), out, i_comment, txt)
                ELSE JssOn(Tail_(s, 2), JssEmit(out, i_comment, " "), i_comment, txt)
           [] c = "\\" -> JssEscape(s, n, out, i_comment, txt)
           [] OTHER -> JssOn(Tail_(s, 2), JssEmit(out, i_comment, c), i_comment, txt)

RECURSIVE JssText(_, _, _, _)
JssText(s, out, i_comment, txt) ==
    The({ IF x.st = "on" THEN JssText(x.s, x.out, x.i_comment, x.txt) ELSE x :
          x \in {JssStep(s, At(s, 1), At(s, 2), out, i_comment, txt)} })

\* the text of a cue line from its first character on: the blanks and the
\* directive skipped.  nospace: the directive has no space after it
JssAfterDirective(p1, e) ==
    IF isalpha(At(p1, 1)) \/ At(p1, 1) = "["
    THEN The({ [nospace |-> sp > Len(p1),
                p |-> The({ Tail_(p2, SpanEnd(p2, 1, {" ", "\t"})) :
                            p2 \in {IF sp > Len(p1) THEN JunkText(e.junk)
                                    ELSE Tail_(p1, sp)} })] :
               sp \in {SpanEndNot(p1, 1, {" "})} })
    ELSE [nospace |-> FALSE, p |-> Tail_(p1, SpanEnd(p1, 1, {" ", "\t"}))]

\* ( f + jss_time_shift ) / jss_time_resolution
JssFrames(d, e, f) ==
    IF d.jss_time_resolution = 0 THEN e.junk
    ELSE CDiv(f + d.jss_time_shift, d.jss_time_resolution)

\* what ParseJSS returns for a cue line, a and t being what the directive and
\* the text of the line came to
JssRet(d, timed, e, a, t) ==
    The({ IF d.jss_time_resolution = 0 \/ a.nospace \/ t.undef
          THEN Undefined(e, r) ELSE r :
          r \in {IF t.eof
                 THEN Ret(VLC_EGENERIC,
                          [d EXCEPT !.i_comment = t.i_comment, !.txt = t.txt], timed)
                 ELSE Ret(VLC_SUCCESS,
                          [d EXCEPT !.i_comment = t.i_comment, !.txt = t.txt],
                          [timed EXCEPT !.psz_text = t.out])} })

\* a cue line of ParseJSS, its times (in frames past the seconds secs) and
\* text read: the times computed, the directive skipped, the text stripped
JssCue(d, sub, e, secs1, f1, secs2, f2, text) ==
    The({ The({ JssRet(d, timed, e, a, t) :
                t \in {JssText(a.p, <<>>, d.i_comment, d.txt)} }) :
          a \in {The({ JssAfterDirective(p1, e) :
                       p1 \in {Tail_(text, SpanEnd(text, 1, {" ", "\t"}))} })},
          timed \in {[sub EXCEPT !.i_start = (secs1 + JssFrames(d, e, f1)) * 1000000,
                                 !.i_stop  = (secs2 + JssFrames(d, e, f2)) * 1000000]} })

\* a line that ParseJSS does not skip
JssLine(s) ==
    \/ At(s, 1) = "#"
    \/ sscanf(s, FmtJSS).n = 9
    \/ sscanf(s, FmtJSSFrames).n = 3

RECURSIVE ParseJSS(_, _, _)

\* a line of ParseJSS that starts with '#' and is no cue line
JssDirectiveLine(d, sub, e, dir) ==
    IF dir.undef /\ e.crash THEN Undefined(e, Ret(CRASH, dir.d, sub))
    ELSE The({ IF dir.undef THEN [rest EXCEPT !.undef = TRUE] ELSE rest :
               rest \in {ParseJSS(dir.d, sub, e)} })

ParseJSS(d, sub, e) ==
    The({ The({
        IF g.null THEN Ret(VLC_EGENERIC, d1, sub)
        ELSE IF r1.n = 9
        THEN JssCue(d1, sub, e,
                    r1.v[1] * 3600 + r1.v[2] * 60 + r1.v[3], r1.v[4],
                    r1.v[5] * 3600 + r1.v[6] * 60 + r1.v[7], r1.v[8], r1.v[9])
        ELSE IF r2.n = 3
        THEN JssCue(d1, sub, e, 0, r2.v[1], 0, r2.v[2], r2.v[3])
        ELSE The({ JssDirectiveLine(d1, sub, e, dir) :
                   dir \in {JssDirective(d1, g.s, e)} }) :
        d1 \in {[d EXCEPT !.txt = g.txt]},
        r1 \in {sscanf(g.s, FmtJSS)},
        r2 \in {sscanf(g.s, FmtJSSFrames)} }) :
        g \in {SkipToLine(d.txt, {i \in LinesFrom(d.txt) : JssLine(d.txt.line[i])})} })

(***************************************************************************)
(* sub_read_subtitle_function: the reader of each type.                    *)
(***************************************************************************)
pf_read(i_type, d, sub, e, i_idx) ==
    CASE i_type = SUB_TYPE_MICRODVD    -> ParseMicroDvd(d, sub, e)
      [] i_type = SUB_TYPE_SUBRIP      -> ParseSubRip(d, sub, e)
      [] i_type = SUB_TYPE_SUBVIEWER   -> ParseSubViewer(d, sub, e)
      [] i_type = SUB_TYPE_SSA1        -> ParseSSA(d, sub, e, i_idx)
      [] i_type = SUB_TYPE_SSA2_4      -> ParseSSA(d, sub, e, i_idx)
      [] i_type = SUB_TYPE_ASS         -> ParseSSA(d, sub, e, i_idx)
      [] i_type = SUB_TYPE_VPLAYER     -> ParseVplayer(d, sub, e)
      [] i_type = SUB_TYPE_SAMI        -> ParseSami(d, sub, e)
      [] i_type = SUB_TYPE_DVDSUBTITLE -> ParseDVDSubtitle(d, sub, e)
      [] i_type = SUB_TYPE_MPL2        -> ParseMPL2(d, sub, e)
      [] i_type = SUB_TYPE_AQT         -> ParseAQT(d, sub, e)
      [] i_type = SUB_TYPE_PJS         -> ParsePJS(d, sub, e)
      [] i_type = SUB_TYPE_MPSUB       -> ParseMPSub(d, sub, e)
      [] i_type = SUB_TYPE_JACOSUB     -> ParseJSS(d, sub, e)

(***************************************************************************)
(* Open: the type of the "sub-type" variable and the probe.                *)
(***************************************************************************)
sub_read_subtitle_function ==
    << [psz_type_name |-> "microdvd",    i_type |-> SUB_TYPE_MICRODVD],
       [psz_type_name |-> "subrip",      i_type |-> SUB_TYPE_SUBRIP],
       [psz_type_name |-> "subviewer",   i_type |-> SUB_TYPE_SUBVIEWER],
       [psz_type_name |-> "ssa1",        i_type |-> SUB_TYPE_SSA1],
       [psz_type_name |-> "ssa2-4",      i_type |-> SUB_TYPE_SSA2_4],
       [psz_type_name |-> "ass",         i_type |-> SUB_TYPE_ASS],
       [psz_type_name |-> "vplayer",     i_type |-> SUB_TYPE_VPLAYER],
       [psz_type_name |-> "sami",        i_type |-> SUB_TYPE_SAMI],
       [psz_type_name |-> "dvdsubtitle", i_type |-> SUB_TYPE_DVDSUBTITLE],
       [psz_type_name |-> "mpl2",        i_type |-> SUB_TYPE_MPL2],
       [psz_type_name |-> "aqt",         i_type |-> SUB_TYPE_AQT],
       [psz_type_name |-> "pjs",         i_type |-> SUB_TYPE_PJS],
       [psz_type_name |-> "mpsub",       i_type |-> SUB_TYPE_MPSUB],
       [psz_type_name |-> "jacosub",     i_type |-> SUB_TYPE_JACOSUB] >>

\* "Get or probe the type": the type of the first entry named psz_type
TypeOfName(psz_type) ==
    The({ IF psz_type = "" \/ hits = {} THEN SUB_TYPE_UNKNOWN
          ELSE sub_read_subtitle_function[Min(hits)].i_type :
          hits \in {{i \in DOMAIN sub_read_subtitle_function :
                       sub_read_subtitle_function[i].psz_type_name = psz_type}} })

\* "Get the FPS" and "Check for override of the fps", both in thousandths
InitialMicrosecPerFrame(sub_original_fps, sub_fps) ==
    IF sub_fps >= 1000 THEN MicrosecPerFrame(sub_fps)
    ELSE IF sub_original_fps >= 1000 THEN MicrosecPerFrame(sub_original_fps)
    ELSE 40000

\* stream_ReadLine on the stream [lines, pos]
stream_ReadLine(s) ==
    IF s.pos >= Len(s.lines) THEN [null |-> TRUE, s |-> <<>>, stream |-> s]
    ELSE [null |-> FALSE, s |-> s.lines[s.pos + 1],
          stream |-> [s EXCEPT !.pos = @ + 1]]

FmtProbeSubRip == FmtSubRip
FmtProbeJss ==
    <<PctD, Lit(":"), PctD, Lit(":"), PctD, Lit("."), PctD, Ws,
      PctD, Lit(":"), PctD, Lit(":"), PctD>>
FmtProbeJssFrames == <<Lit("@"), PctD, Ws, Lit("@"), PctD>>
FmtProbeVplayer   == <<PctD, Lit(":"), PctD, Lit(":"), PctD, Lit(":")>>
FmtProbeVplayerSp == <<PctD, Lit(":"), PctD, Lit(":"), PctD, Ws>>
FmtProbeMPL2      == <<Lit("["), PctD, Lit("]"), Lit("["), PctD, Lit("]")>>
FmtProbeMPL2Open  == <<Lit("["), PctD, Lit("]"), Lit("["), Lit("]")>>
FmtProbeMicroDvd     == <<Lit("{"), PctD, Lit("}"), Lit("{"), PctD, Lit("}")>>
FmtProbeMicroDvdOpen == <<Lit("{"), PctD, Lit("}"), Lit("{"), Lit("}")>>
FmtProbeMPSub     == Lits(<<"F", "O", "R", "M", "A", "T", "=">>) \o <<PctD>>
FmtProbePJS       == <<PctD, Lit(","), PctD, Lit(",")>>

BannerSSA1 ==
    <<"!", ":", " ", "T", "h", "i", "s", " ", "i", "s", " ", "a", " ", "S", "u", "b",
      " ", "S", "t", "a", "t", "i", "o", "n", " ", "A", "l", "p", "h", "a", " ", "v", "1">>
ScriptTypeASS ==
    <<"S", "c", "r", "i", "p", "t", "T", "y", "p", "e", ":", " ", "v", "4", ".", "0", "0", "+">>
ScriptTypeSSA == SubSeq(ScriptTypeASS, 1, 17)
DialogueMarked ==
    <<"D", "i", "a", "l", "o", "g", "u", "e", ":", " ", "M", "a", "r", "k", "e", "d">>
Dialogue == SubSeq(DialogueMarked, 1, 9)
Information ==
    <<"[", "I", "N", "F", "O", "R", "M", "A", "T", "I", "O", "N", "]">>

\* the tests of the probe on the line s, in the order of the else-if chain
ProbeTests(s) ==
    << strcasestr(s, <<"<", "S", "A", "M", "I", ">">>) > 0,
       sscanf(s, FmtProbeMicroDvd).n = 2 \/ sscanf(s, FmtProbeMicroDvdOpen).n = 1,
       sscanf(s, FmtProbeSubRip).n = 8,
       HasPrefixNoCase(s, BannerSSA1),
       HasPrefixNoCase(s, ScriptTypeASS),
       HasPrefixNoCase(s, ScriptTypeSSA),
       HasPrefixNoCase(s, DialogueMarked),
       HasPrefixNoCase(s, Dialogue),
       strcasestr(s, Information) > 0,
       sscanf(s, FmtProbeJss).n = 7 \/ sscanf(s, FmtProbeJssFrames).n = 2,
       sscanf(s, FmtProbeVplayer).n = 3 \/ sscanf(s, FmtProbeVplayerSp).n = 3,
       sscanf(s, FmtDVDSubtitle).n = 4,
       sscanf(s, FmtProbeMPL2).n = 2 \/ sscanf(s, FmtProbeMPL2Open).n = 1,
       sscanf(s, FmtProbeMPSub).n = 1 \/ MPSubTime(s),
       sscanf(s, FmtAQT).n = 1,
       sscanf(s, FmtProbePJS).n = 2 >>

\* what each test does when it holds: the type it sets, and whether it ends
\* the scan (a break)
ProbeOutcomes ==
    << [i_type |-> SUB_TYPE_SAMI,        brk |-> TRUE],
       [i_type |-> SUB_TYPE_MICRODVD,    brk |-> TRUE],
       [i_type |-> SUB_TYPE_SUBRIP,      brk |-> TRUE],
       [i_type |-> SUB_TYPE_SSA1,        brk |-> TRUE],
       [i_type |-> SUB_TYPE_ASS,         brk |-> TRUE],
       [i_type |-> SUB_TYPE_SSA2_4,      brk |-> TRUE],
       [i_type |-> SUB_TYPE_SSA2_4,      brk |-> TRUE],
       [i_type |-> SUB_TYPE_ASS,         brk |-> TRUE],
       [i_type |-> SUB_TYPE_SUBVIEWER,   brk |-> TRUE],
       [i_type |-> SUB_TYPE_JACOSUB,     brk |-> FALSE],
       [i_type |-> SUB_TYPE_VPLAYER,     brk |-> TRUE],
       [i_type |-> SUB_TYPE_DVDSUBTITLE, brk |-> TRUE],
       [i_type |-> SUB_TYPE_MPL2,        brk |-> TRUE],
       [i_type |-> SUB_TYPE_MPSUB,       brk |-> FALSE],
       [i_type |-> SUB_TYPE_AQT,         brk |-> FALSE],
       [i_type |-> SUB_TYPE_PJS,         brk |-> FALSE] >>

\* the else-if chain on one line: the outcome of the first test that holds;
\* UNKNOWN stands for a line that leaves the type as it is
ProbeLine(s) ==
    The({ IF hits = {} THEN [i_type |-> SUB_TYPE_UNKNOWN, brk |-> FALSE]
          ELSE ProbeOutcomes[Min(hits)] :
          hits \in {The({ {i \in DOMAIN ProbeOutcomes : tests[i]} :
                          tests \in {ProbeTests(s)} })} })

\* for( i_try = 0; i_try < 256; i_try++ )
ProbeMax == 256

\* a faulty variant of ProbeTry: no test ends the scan
ProbeTryNoBreak(lines, st) ==
    IF st.pos >= Len(lines) THEN [st EXCEPT !.brk = TRUE]
    ELSE The({ [pos |-> st.pos + 1,
                i_type |-> IF r.i_type = SUB_TYPE_UNKNOWN THEN st.i_type ELSE r.i_type,
                brk |-> FALSE] :
               r \in {ProbeLine(lines[st.pos + 1])} })

\* one turn of the loop of "Probe if unknown type", st being the stream
\* position, the type so far and whether the loop is left (a break)
ProbeTry(lines, st) ==
    IF st.pos >= Len(lines) THEN [st EXCEPT !.brk = TRUE]
    ELSE The({ [pos |-> st.pos + 1,
                i_type |-> IF r.i_type = SUB_TYPE_UNKNOWN THEN st.i_type ELSE r.i_type,
                brk |-> r.brk] :
               r \in {ProbeLine(lines[st.pos + 1])} })

\* the turns i_try = a .. b of the loop, one after the other
RECURSIVE ProbeTries(_, _, _, _)
ProbeTries(lines, a, b, st) ==
    IF st.brk THEN st
    ELSE IF a = b THEN ProbeTry(lines, st)
    ELSE The({ ProbeTries(lines, (a + b) \div 2 + 1, b, half) :
               half \in {ProbeTries(lines, a, (a + b) \div 2, st)} })

\* a faulty variant of ProbeLoop: i_try <= 256
ProbeLoopOneMore(stream, i_type) ==
    The({ [stream |-> [stream EXCEPT !.pos = st.pos], i_type |-> st.i_type] :
          st \in {ProbeTries(stream.lines, 0, ProbeMax,
                             [pos |-> stream.pos, i_type |-> i_type, brk |-> FALSE])} })

\* the loop of "Probe if unknown type": the stream and the type it leaves
ProbeLoop(stream, i_type) ==
    The({ [stream |-> [stream EXCEPT !.pos = st.pos], i_type |-> st.i_type] :
          st \in {ProbeTries(stream.lines, 0, ProbeMax - 1,
                             [pos |-> stream.pos, i_type |-> i_type, brk |-> FALSE])} })

\* a faulty variant of stream_Seek: the stream is left where the probe stopped
stream_SeekNowhere(s, ok) == s

\* stream_Seek( s, 0 ): the stream rewound, or left where it is when the seek fails
stream_Seek(s, ok) == IF ok THEN [s EXCEPT !.pos = 0] ELSE s

\* TextLoad: the lines left in the stream; VLC_EGENERIC (and txt->line freed)
\* when there is none
TextLoad(stream) ==
    The({ [txt |-> [line |-> left, i_line |-> 0, i_line_count |-> Len(left)],
           stream |-> [stream EXCEPT !.pos = Len(stream.lines)],
           rc |-> IF Len(left) <= 0 THEN VLC_EGENERIC ELSE VLC_SUCCESS] :
          left \in {SubSeq(stream.lines, stream.pos + 1, Len(stream.lines))} })

TextUnload(txt) == NoText

\* a faulty variant of Length: i_length < 0 where the code has i_length <= 0
LengthStrict(subtitle) ==
    IF Len(subtitle) > 0
    THEN (IF subtitle[Len(subtitle)].i_stop < 0
          THEN subtitle[Len(subtitle)].i_start + 1
          ELSE subtitle[Len(subtitle)].i_stop)
    ELSE 0

\* "Fix subtitle (order and time)": i_length of the cues read
Length(subtitle) ==
    IF Len(subtitle) > 0
    THEN (IF subtitle[Len(subtitle)].i_stop <= 0
          THEN subtitle[Len(subtitle)].i_start + 1
          ELSE subtitle[Len(subtitle)].i_stop)
    ELSE 0

\* a faulty variant of SeekFrom: i_start <= i64 where the code has i_start < i64
RECURSIVE SeekFromPast(_, _, _)
SeekFromPast(subtitle, i_subtitle, i64) ==
    IF i_subtitle < Len(subtitle) /\ subtitle[i_subtitle + 1].i_start <= i64
    THEN SeekFromPast(subtitle, i_subtitle + 1, i64)
    ELSE i_subtitle

\* the loop of DEMUX_SET_TIME and DEMUX_SET_POSITION, from index i_subtitle
RECURSIVE SeekFrom(_, _, _)
SeekFrom(subtitle, i_subtitle, i64) ==
    IF i_subtitle < Len(subtitle) /\ subtitle[i_subtitle + 1].i_start < i64
    THEN SeekFrom(subtitle, i_subtitle + 1, i64)
    ELSE i_subtitle

(***************************************************************************)
(* The demuxer as a state machine.                                         *)
(*   statics   the static variables of ParseMPSub and ParseJSS, which live *)
(*             as long as the process                                      *)
(*   pc        where the session is: "idle" (no session), inside Open      *)
(*             ("probe", "rewind", "select", "load", "parse", "unload"),   *)
(*             "open" (Open returned VLC_SUCCESS), "crashed"               *)
(*   job       what the session was opened on: the file and the variables  *)
(*   stream    p_demux->s: the lines of the file and the read position     *)
(*   sub_fps   the "sub-fps" variable of the demux object                  *)
(*   p_sys     demux_sys_t                                                 *)
(*   i_max     the local of Open                                           *)
(*   ret       what the last Open returned, "none" before it returns       *)
(*   rc        what the last call of the reader returned                   *)
(*   ctl       the last Control call: query, argument, return, value       *)
(*   met       what the session met: "probe", "rewind_failed", "oom",      *)
(*             "undef"                                                     *)
(*   statics0  the static variables as the session found them              *)
(*   nsessions the sessions opened so far                                  *)
(*   corpus    the files the sessions are opened on, and what they meet    *)
(***************************************************************************)
VARIABLES statics, pc, job, stream, sub_fps, p_sys, i_max, ret, rc, ctl,
          met, statics0, nsessions, corpus

vars == <<statics, pc, job, stream, sub_fps, p_sys, i_max, ret, rc, ctl,
          met, statics0, nsessions, corpus>>

\* static float mpsub_total = 0.0, mpsub_factor = 0.0; and in ParseJSS
\* static int i_comment = 0, jss_time_resolution = 30, jss_time_shift = 0
InitialStatics ==
    [mpsub_total |-> 0, mpsub_factor |-> 0, i_comment |-> 0,
     jss_time_resolution |-> 30, jss_time_shift |-> 0]

NoEs == [i_codec |-> "", extra_null |-> TRUE, p_extra |-> <<>>]

NoSys ==
    [i_type |-> SUB_TYPE_UNKNOWN, txt |-> NoText, line_freed |-> FALSE,
     i_microsecperframe |-> 0, header_null |-> TRUE, psz_header |-> <<>>,
     i_subtitle |-> 0, i_subtitles |-> 0, subtitle |-> <<>>, i_length |-> 0,
     es |-> NoEs]

NoJob == [file |-> <<>>, sub_type |-> "", sub_fps |-> 0, sub_original_fps |-> 0,
          b_force |-> FALSE]

NoStream == [lines |-> <<>>, pos |-> 0]

NoCtl == [i_query |-> "", arg |-> 0, ret |-> "", val |-> 0]

\* what a reader reads and writes besides the cue
ReaderState(sys, fps, st) ==
    [txt |-> sys.txt, i_type |-> sys.i_type,
     i_microsecperframe |-> sys.i_microsecperframe,
     header_null |-> sys.header_null, psz_header |-> sys.psz_header,
     sub_fps |-> fps,
     mpsub_total |-> st.mpsub_total, mpsub_factor |-> st.mpsub_factor,
     i_comment |-> st.i_comment,
     jss_time_resolution |-> st.jss_time_resolution,
     jss_time_shift |-> st.jss_time_shift]

StaticsOf(d) ==
    [mpsub_total |-> d.mpsub_total, mpsub_factor |-> d.mpsub_factor,
     i_comment |-> d.i_comment,
     jss_time_resolution |-> d.jss_time_resolution,
     jss_time_shift |-> d.jss_time_shift]

\* a subtitle_t of the array realloc returned, before a reader fills it
FreshSlot(junk) ==
    [i_start |-> junk, i_stop |-> junk, psz_text |-> JunkText(junk)]

\* i_max += 500
SubtitleChunk == 500

(***************************************************************************)
(* The files: lines of subtitle files, each a sequence of characters.      *)
(***************************************************************************)
\* (an empty line)
LnBlank == <<>>
\* x
LnProse == <<"x">>
\* <SAMI>
LnSami == <<"<", "S", "A", "M", "I", ">">>
\* <SYNC Start=1000><P>Hi<br>you
LnSync1 == <<"<", "S", "Y", "N", "C", " ", "S", "t", "a", "r", "t", "=", "1", "0", "0", "0", ">", "<", "P", ">", "H", "i", "<", "b", "r", ">", "y", "o", "u">>
\* <SYNC Start=1><P>a<SYNC Start=2><P>b
LnSyncTwo == <<"<", "S", "Y", "N", "C", " ", "S", "t", "a", "r", "t", "=", "1", ">", "<", "P", ">", "a", "<", "S", "Y", "N", "C", " ", "S", "t", "a", "r", "t", "=", "2", ">", "<", "P", ">", "b">>
\* <SYNC Start=2000><P>&nbsp;
LnSync2 == <<"<", "S", "Y", "N", "C", " ", "S", "t", "a", "r", "t", "=", "2", "0", "0", "0", ">", "<", "P", ">", "&", "n", "b", "s", "p", ";">>
\* {10}{20}a|b
LnMicroDvd == <<"{", "1", "0", "}", "{", "2", "0", "}", "a", "|", "b">>
\* {30}{}c
LnMicroDvdOpen == <<"{", "3", "0", "}", "{", "}", "c">>
\* {1}{1}50
LnMicroDvdFps == <<"{", "1", "}", "{", "1", "}", "5", "0">>
\* {1}{1}x
LnMicroDvdNoRate == <<"{", "1", "}", "{", "1", "}", "x">>
\* {-3}{-2}d
LnMicroDvdNeg == <<"{", "-", "3", "}", "{", "-", "2", "}", "d">>
\* {0}{0}e
LnMicroDvdZero == <<"{", "0", "}", "{", "0", "}", "e">>
\* {100}{200}
LnMicroDvdEmpty == <<"{", "1", "0", "0", "}", "{", "2", "0", "0", "}">>
\* [10][20]
LnMpl2Empty == <<"[", "1", "0", "]", "[", "2", "0", "]">>
\* 0:0:1,0 --> 0:0:2,500
LnSubRip == <<"0", ":", "0", ":", "1", ",", "0", " ", "-", "-", ">", " ", "0", ":", "0", ":", "2", ",", "5", "0", "0">>
\* 0:0:1.0,0:0:2.500
LnSubViewer == <<"0", ":", "0", ":", "1", ".", "0", ",", "0", ":", "0", ":", "2", ".", "5", "0", "0">>
\* a[br]b
LnBr == <<"a", "[", "b", "r", "]", "b">>
\* !: This is a Sub Station Alpha v1
LnSSA1 == <<"!", ":", " ", "T", "h", "i", "s", " ", "i", "s", " ", "a", " ", "S", "u", "b", " ", "S", "t", "a", "t", "i", "o", "n", " ", "A", "l", "p", "h", "a", " ", "v", "1">>
\* ScriptType: v4.00+
LnAssType == <<"S", "c", "r", "i", "p", "t", "T", "y", "p", "e", ":", " ", "v", "4", ".", "0", "0", "+">>
\* ScriptType: v4.00
LnSsaType == <<"S", "c", "r", "i", "p", "t", "T", "y", "p", "e", ":", " ", "v", "4", ".", "0", "0">>
\* Dialogue: Marked=0,0:0:1.0,0:0:2.0,S,a
LnMarked == <<"D", "i", "a", "l", "o", "g", "u", "e", ":", " ", "M", "a", "r", "k", "e", "d", "=", "0", ",", "0", ":", "0", ":", "1", ".", "0", ",", "0", ":", "0", ":", "2", ".", "0", ",", "S", ",", "a">>
\* Dialogue: 3,0:0:3.0,0:0:4.0,S,b
LnDialogue == <<"D", "i", "a", "l", "o", "g", "u", "e", ":", " ", "3", ",", "0", ":", "0", ":", "3", ".", "0", ",", "0", ":", "0", ":", "4", ".", "0", ",", "S", ",", "b">>
\* "Dialogue: -2147483647,0:0:3.0,0:0:4.0,S,c"
LnDialogueLow == <<"D", "i", "a", "l", "o", "g", "u", "e", ":", " ", "-", "2", "1", "4", "7", "4", "8", "3", "6", "4", "7", ",", "0", ":", "0", ":", "3", ".", "0", ",", "0", ":", "0", ":", "4", ".", "0", ",", "S", ",", "c">>
\* [INFORMATION]
LnInfo == <<"[", "I", "N", "F", "O", "R", "M", "A", "T", "I", "O", "N", "]">>
\* 0:0:1.15 0:0:2.0 ~a{b
LnJss == <<"0", ":", "0", ":", "1", ".", "1", "5", " ", "0", ":", "0", ":", "2", ".", "0", " ", "~", "a", "{", "b">>
\* 0:0:1.0 0:0:2.0 ~a\
LnJssSplice == <<"0", ":", "0", ":", "1", ".", "0", " ", "0", ":", "0", ":", "2", ".", "0", " ", "~", "a", "\\">>
\* 0:0:1.0 0:0:2.0 ~ax
LnJssSpliced == <<"0", ":", "0", ":", "1", ".", "0", " ", "0", ":", "0", ":", "2", ".", "0", " ", "~", "a", "x">>
\* 0:0:1.0 0:0:2.0 ~a{b}c
LnJssComment == <<"0", ":", "0", ":", "1", ".", "0", " ", "0", ":", "0", ":", "2", ".", "0", " ", "~", "a", "{", "b", "}", "c">>
\* 0:0:1.0 0:0:2.0 ~a{b{c}d}e
LnJssNested == <<"0", ":", "0", ":", "1", ".", "0", " ", "0", ":", "0", ":", "2", ".", "0", " ", "~", "a", "{", "b", "{", "c", "}", "d", "}", "e">>
\* 0:0:3.0 0:0:4.0 ~c}d
LnJssClose == <<"0", ":", "0", ":", "3", ".", "0", " ", "0", ":", "0", ":", "4", ".", "0", " ", "~", "c", "}", "d">>
\* @30 @60 ~e
LnJssFrames == <<"@", "3", "0", " ", "@", "6", "0", " ", "~", "e">>
\* #T10
LnJssRes == <<"#", "T", "1", "0">>
\* #T0
LnJssResZero == <<"#", "T", "0">>
\* #S0.5
LnJssShift == <<"#", "S", "0", ".", "5">>
\* 0:0:1:a|b
LnVplayer == <<"0", ":", "0", ":", "1", ":", "a", "|", "b">>
\* {T 0:0:1:50
LnDvd == <<"{", "T", " ", "0", ":", "0", ":", "1", ":", "5", "0">>
\* }
LnBrace == <<"}">>
\* [10][20] /a|b
LnMpl2 == <<"[", "1", "0", "]", "[", "2", "0", "]", " ", "/", "a", "|", "b">>
\* FORMAT=TIME
LnMpsubTime == <<"F", "O", "R", "M", "A", "T", "=", "T", "I", "M", "E">>
\* FORMAT=25
LnMpsubFps == <<"F", "O", "R", "M", "A", "T", "=", "2", "5">>
\* 1 2
LnMpsubData == <<"1", " ", "2">>
\* 0.5 1.5
LnMpsubData2 == <<"0", ".", "5", " ", "1", ".", "5">>
\* 0 0
LnMpsubZero == <<"0", " ", "0">>
\* -1 2
LnMpsubBack == <<"-", "1", " ", "2">>
\* -->> 5
LnAqt == <<"-", "-", ">", ">", " ", "5">>
\* -->> 9
LnAqt2 == <<"-", "-", ">", ">", " ", "9">>
\* 1,2,"a"
LnPjs == <<"1", ",", "2", ",", "\"", "a", "\"">>

\* the lines the probe knows, a line it does not know and an empty one
\* a line of each signature the probe knows, a line it does not know, an empty line
SignatureLines ==
    {LnSami, LnMicroDvd, LnSubRip, LnSSA1, LnAssType, LnSsaType, LnMarked,
     LnDialogue, LnInfo, LnJss, LnJssFrames, LnVplayer, LnDvd, LnMpl2,
     LnMpsubTime, LnMpsubFps, LnAqt, LnPjs, LnProse, LnBlank}

\* the lines whose signature does not end the scan, and a line without one
WeakLines == {LnJssFrames, LnMpsubFps, LnAqt, LnPjs, LnProse}

\* n lines the probe does not know
Pad(n) == [k \in 1..n |-> LnProse]

ProbeFiles ==
    {<<>>}
    \cup {<<a>> : a \in SignatureLines}
    \cup {<<w, a>> : w \in WeakLines, a \in SignatureLines}
    \cup {<<a, b>> : a \in {LnMicroDvd, LnDialogue}, b \in {LnSami, LnVplayer, LnPjs}}
    \cup {<<w, a, b>> : w \in {LnPjs, LnProse}, a \in {LnMicroDvd, LnJssFrames},
                        b \in {LnVplayer, LnMpl2}}
    \cup {Pad(n) \o t : n \in {ProbeMax - 2, ProbeMax - 1, ProbeMax},
                        t \in {<<LnMicroDvd>>, <<LnPjs>>, <<LnPjs, LnMicroDvd>>,
                               <<LnJssFrames, LnPjs>>}}

\* one file of each format, a file of no format, and the empty file
SampleFiles ==
    {<<LnMicroDvdFps, LnMicroDvd, LnMicroDvdOpen>>,
     <<LnProse, LnSubRip, LnBr, LnBlank, LnSubRip, LnProse>>,
     <<LnInfo, LnSubViewer, LnBr, LnBlank>>,
     <<LnSSA1, LnMarked>>,
     <<LnSsaType, LnMarked, LnDialogue>>,
     <<LnAssType, LnDialogue>>,
     <<LnVplayer>>,
     <<LnSami, LnSync1, LnSync2>>,
     <<LnDvd, LnProse, LnBrace>>,
     <<LnMpl2>>,
     <<LnAqt, LnProse, LnAqt2, LnProse>>,
     <<LnPjs>>,
     <<LnMpsubTime, LnMpsubData, LnProse, LnBlank>>,
     <<LnJssRes, LnJss, LnJssFrames>>,
     <<LnProse>>,
     <<>>}

\* files of the two formats whose readers keep static variables
StaticsFiles ==
    {<<LnMpsubTime, LnBlank, LnMpsubData, LnProse, LnBlank>>,
     <<LnMpsubTime, LnMpsubData, LnProse, LnBlank>>,
     <<LnMpsubFps, LnMpsubData2, LnProse, LnBlank>>,
     <<LnMpsubData, LnProse, LnBlank>>,
     <<LnJssRes, LnJss>>,
     <<LnJssShift, LnJssFrames>>,
     <<LnJss, LnJssFrames>>,
     <<LnJssClose>>,
     <<LnJssFrames>>}

MicroDvdLines == {LnMicroDvd, LnMicroDvdOpen, LnMicroDvdNeg, LnMicroDvdZero}

SeekFiles ==
    {<<>>}
    \cup {<<a>> : a \in MicroDvdLines}
    \cup {<<a, b>> : a \in MicroDvdLines, b \in MicroDvdLines}
    \cup {<<LnMicroDvdNeg, LnMicroDvdZero, LnMicroDvd, LnMicroDvdOpen>>,
          <<LnMicroDvdNeg, LnMicroDvd, LnMicroDvdOpen>>,
          <<LnMicroDvd, LnMicroDvdOpen, LnMicroDvdZero>>,
          <<LnMicroDvdOpen, LnMicroDvdOpen, LnMicroDvd>>}

\* files for the readers, each with the name of its format: lines that are no
\* cue before, between and after the cues
CueJobs ==
    {[file |-> <<LnProse, LnMicroDvd, LnProse, LnMicroDvdOpen>>, n |-> "microdvd"],
     [file |-> <<LnProse, LnSubRip, LnBr, LnBlank, LnProse, LnSubRip, LnBlank>>, n |-> "subrip"],
     [file |-> <<LnProse, LnSubViewer, LnBr, LnBlank>>, n |-> "subviewer"],
     [file |-> <<LnProse, LnMarked, LnProse, LnDialogue>>, n |-> "ssa1"],
     [file |-> <<LnProse, LnMarked, LnProse, LnDialogue>>, n |-> "ssa2-4"],
     [file |-> <<LnProse, LnDialogue, LnMarked, LnProse>>, n |-> "ass"],
     [file |-> <<LnProse, LnVplayer, LnProse, LnVplayer>>, n |-> "vplayer"],
     [file |-> <<LnProse, LnSync1, LnSync2>>, n |-> "sami"],
     [file |-> <<LnSyncTwo>>, n |-> "sami"],
     [file |-> <<LnAqt, LnAqt2, LnProse>>, n |-> "aqt"],
     [file |-> <<LnProse, LnProse>>, n |-> "aqt"],
     [file |-> <<LnProse, LnDvd, LnProse, LnBrace>>, n |-> "dvdsubtitle"],
     [file |-> <<LnProse, LnMpl2, LnProse, LnMpl2>>, n |-> "mpl2"],
     [file |-> <<LnProse, LnAqt, LnProse, LnAqt2, LnProse>>, n |-> "aqt"],
     [file |-> <<LnProse, LnPjs, LnProse, LnPjs>>, n |-> "pjs"],
     [file |-> <<LnProse, LnMpsubData, LnProse, LnBlank>>, n |-> "mpsub"],
     [file |-> <<LnProse, LnJssFrames, LnProse, LnJss>>, n |-> "jacosub"],
     [file |-> <<LnSubRip, LnBr, LnBlank, LnSubRip, LnProse>>, n |-> "subrip"],
     [file |-> <<LnSubRip, LnProse>>, n |-> "subrip"],
     [file |-> <<LnSubViewer, LnBr, LnBlank, LnBlank, LnSubViewer>>, n |-> "subviewer"],
     [file |-> <<LnDvd, LnProse, LnBrace, LnDvd, LnProse, LnBlank>>, n |-> "dvdsubtitle"],
     [file |-> <<LnMpsubData, LnProse, LnBlank, LnMpsubData2, LnProse>>, n |-> "mpsub"],
     [file |-> <<LnMpsubData, LnProse, LnBlank, LnMpsubData2, LnProse, LnBlank>>,
      n |-> "mpsub"],
     [file |-> <<LnMpsubTime, LnBlank, LnMpsubData, LnProse, LnBlank, LnMpsubData2,
                 LnProse, LnBlank>>, n |-> "mpsub"],
     [file |-> <<LnMpsubTime, LnBlank, LnMpsubZero, LnBlank, LnMpsubZero, LnBlank>>,
      n |-> "mpsub"],
     [file |-> <<LnMpsubTime, LnBlank, LnMpsubData, LnBlank, LnMpsubBack, LnBlank>>,
      n |-> "mpsub"],
     [file |-> <<LnAqt, LnProse, LnAqt2, LnProse>>, n |-> "aqt"],
     [file |-> <<LnJssSplice, LnProse, LnJssFrames>>, n |-> "jacosub"],
     [file |-> <<LnJssComment, LnJss, LnJssClose>>, n |-> "jacosub"],
     [file |-> <<LnJssRes, LnJssShift, LnJssFrames, LnJssResZero, LnJssFrames>>,
      n |-> "jacosub"],
     [file |-> <<LnJssNested, LnJssComment>>, n |-> "jacosub"],
     [file |-> <<LnJssSpliced, LnJssFrames>>, n |-> "jacosub"],
     [file |-> <<LnJssSplice, LnJssFrames, LnJssFrames>>, n |-> "jacosub"],
     [file |-> <<LnAqt, LnProse>>, n |-> "aqt"],
     [file |-> <<LnMicroDvdNeg, LnMicroDvdZero, LnMicroDvdEmpty, LnMicroDvd>>, n |-> "microdvd"],
     [file |-> <<LnSubRip, LnBlank, LnSubRip, LnBr, LnBlank>>, n |-> "subrip"],
     [file |-> <<LnMpl2Empty, LnMpl2>>, n |-> "mpl2"]}

\* the names of the table
TypeNames ==
    {sub_read_subtitle_function[i].psz_type_name : i \in DOMAIN sub_read_subtitle_function}

Job(file, sub_type, fps, original_fps) ==
    [file |-> file, sub_type |-> sub_type, sub_fps |-> fps,
     sub_original_fps |-> original_fps, b_force |-> TRUE]

\* a demuxer that is not forced: Open gives up at once
Unforced == [Job(<<LnMicroDvd>>, "auto", 0, 0) EXCEPT !.b_force = FALSE]

Corpora == {"probe", "formats", "statics", "seek", "cues", "ssa"}

\* the turns of the parse loop on the longest script, the last one meeting the
\* end of the input
MaxSsaCues == 102

\* scripts: a short one with a line of prose between its Dialogue lines, and
\* a long one whose last Dialogue line has a layer of eleven characters
SsaFiles ==
    {<<LnProse, LnMarked, LnProse, LnDialogue>>,
     <<LnDialogue, LnDialogueLow, LnMarked>>,
     [k \in 1..(MaxSsaCues - 2) |-> LnDialogue] \o <<LnDialogueLow>>}

\* what the "sub-type" variable holds: "auto" is its default
Jobs(c) ==
    CASE c = "probe" ->
           {Job(f, "auto", 0, 0) : f \in ProbeFiles}
           \cup {Job(<<LnMicroDvd>>, "microdvd", 0, 0), Unforced}
      [] c = "formats" ->
           {Job(f, n, 0, 0) : f \in SampleFiles, n \in {"auto", "", "bogus"}}
           \cup {Job(f, n, 0, 0) : f \in {<<>>, <<LnProse>>}, n \in TypeNames}
           \cup {Job(f, n, 0, 0) :
                   f \in {<<LnProse, LnSubRip, LnBr, LnBlank, LnSubRip, LnProse>>,
                          <<LnSsaType, LnMarked, LnDialogue>>,
                          <<LnMicroDvdFps, LnMicroDvd, LnMicroDvdOpen>>},
                   n \in {"subrip", "ssa2-4", "microdvd", "mpl2"}}
           \cup {Unforced}
      [] c = "statics" ->
           {Job(f, n, 0, 0) : f \in StaticsFiles, n \in {"mpsub", "jacosub", "auto"}}
           \cup {Unforced}
      [] c = "seek" ->
           {Job(f, n, 0, 0) : f \in SeekFiles, n \in {"microdvd", "auto"}}
           \cup {Job(<<LnMicroDvd, LnMicroDvdOpen>>, "microdvd", fps[1], fps[2]) :
                   fps \in {<<25000, 0>>, <<0, 50000>>, <<500, 500>>}}
           \cup {Unforced}
      [] c = "cues" ->
           {Job(j.file, j.n, 0, 0) : j \in CueJobs}
           \cup {Job(f, "microdvd", fps[1], fps[2]) :
                   f \in {<<LnMicroDvd, LnMicroDvdFps, LnMicroDvd, LnMicroDvdOpen>>,
                          <<LnMicroDvdNoRate, LnMicroDvd>>},
                   fps \in {<<0, 0>>, <<0, 30000>>, <<500, 0>>, <<1000, 0>>,
                            <<25000, 30000>>, <<-1000, 0>>}}
           \cup {Job(<<LnProse, LnMicroDvd>>, "auto", 0, 0), Unforced}
      [] c = "ssa" ->
           {Job(f, n, 0, 0) : f \in SsaFiles, n \in {"ssa1", "ssa2-4", "ass"}}
           \cup {Job(<<LnSsaType, LnMarked>>, "auto", 0, 0), Unforced}

\* what uninitialised memory may hold
Junk == {0, 7}

\* what a turn of the parse loop may meet: the realloc of the array fails
\* ("nomem"), an allocation of the reader fails ("oom"), undefined behaviour
\* ends the process ("crash")
Faults(c) ==
    IF c = "formats" THEN {"none", "nomem", "oom", "crash"} ELSE {"none", "crash"}

\* the arguments of DEMUX_SET_TIME, in microseconds, and of
\* DEMUX_SET_POSITION, in quarters
TimeArgs(c) ==
    IF c = "seek"
    THEN {-120001, -120000, 0, 1, 400000, 400001, 1200000, 1200001}
    ELSE {0}

PositionArgs(c) == IF c = "seek" THEN -1..5 ELSE {2}

(***************************************************************************)
(* Open, in steps; Control; Close.                                         *)
(***************************************************************************)
InitOn(c) ==
    /\ statics = InitialStatics
    /\ pc = "idle"
    /\ job = NoJob
    /\ stream = NoStream
    /\ sub_fps = 0
    /\ p_sys = NoSys
    /\ i_max = 0
    /\ ret = "none"
    /\ rc = "none"
    /\ ctl = NoCtl
    /\ met = {}
    /\ statics0 = InitialStatics
    /\ nsessions = 0
    /\ corpus = c

\* the sessions a process opens, and the cues a session reads, at most
MaxSessions == 2
MaxCues == 4

\* the cues a session of the corpus c reads, at most
CueBound(c) == IF c = "ssa" THEN MaxSsaCues ELSE MaxCues

\* Open up to "Get or probe the type"
OpenBegin ==
    /\ pc = "idle"
    /\ nsessions < MaxSessions
    /\ \E j \in Jobs(corpus) :
          \E i_type \in {TypeOfName(j.sub_type)} :
              /\ job' = j
              /\ stream' = [lines |-> j.file, pos |-> 0]
              /\ sub_fps' = j.sub_fps
              /\ IF ~j.b_force
                 THEN /\ ret' = VLC_EGENERIC
                      /\ pc' = "idle"
                      /\ p_sys' = NoSys
                 ELSE /\ ret' = "none"
                      /\ pc' = IF i_type = SUB_TYPE_UNKNOWN THEN "probe" ELSE "select"
                      /\ p_sys' = [NoSys EXCEPT
                            !.i_microsecperframe =
                                InitialMicrosecPerFrame(j.sub_original_fps, j.sub_fps),
                            !.i_type = i_type]
    /\ nsessions' = nsessions + 1
    /\ statics0' = statics
    /\ met' = {}
    /\ rc' = "none"
    /\ ctl' = NoCtl
    /\ i_max' = 0
    /\ UNCHANGED <<statics, corpus>>

\* "Probe if unknown type": the loop
OpenProbe ==
    /\ pc = "probe"
    /\ \E r \in {ProbeLoop(stream, p_sys.i_type)} :
          /\ stream' = r.stream
          /\ p_sys' = [p_sys EXCEPT !.i_type = r.i_type]
    /\ met' = met \cup {"probe"}
    /\ pc' = "rewind"
    /\ UNCHANGED <<statics, job, sub_fps, i_max, ret, rc, ctl, statics0,
                   nsessions, corpus>>

\* stream_Seek( p_demux->s, 0 ), which may fail
OpenRewind ==
    /\ pc = "rewind"
    /\ \E ok \in BOOLEAN :
          /\ stream' = stream_Seek(stream, ok)
          /\ met' = IF ok THEN met ELSE met \cup {"rewind_failed"}
    /\ pc' = "select"
    /\ UNCHANGED <<statics, job, sub_fps, p_sys, i_max, ret, rc, ctl,
                   statics0, nsessions, corpus>>

\* the type is known, or Open fails
OpenSelect ==
    /\ pc = "select"
    /\ IF p_sys.i_type = SUB_TYPE_UNKNOWN
       THEN /\ ret' = VLC_EGENERIC
            /\ p_sys' = NoSys
            /\ pc' = "idle"
       ELSE /\ pc' = "load"
            /\ UNCHANGED <<ret, p_sys>>
    /\ UNCHANGED <<statics, job, stream, sub_fps, i_max, rc, ctl, met,
                   statics0, nsessions, corpus>>

\* "Load the whole file": what TextLoad returns is not looked at
OpenLoad ==
    /\ pc = "load"
    /\ \E r \in {TextLoad(stream)} :
          /\ stream' = r.stream
          /\ p_sys' = [p_sys EXCEPT !.txt = r.txt,
                                    !.line_freed = (r.rc # VLC_SUCCESS)]
    /\ i_max' = 0
    /\ pc' = "parse"
    /\ UNCHANGED <<statics, job, sub_fps, ret, rc, ctl, met, statics0,
                   nsessions, corpus>>

\* the realloc of "Parse it" fails: Open returns VLC_ENOMEM
OpenNoMemory ==
    /\ ret' = VLC_ENOMEM
    /\ p_sys' = NoSys
    /\ pc' = "idle"
    /\ met' = met \cup {"oom"}
    /\ UNCHANGED <<statics, sub_fps, i_max, rc>>

\* the reader returned r: the cue is kept and the loop goes on, or the loop ends
OpenRead(r) ==
    /\ i_max' = IF p_sys.i_subtitles >= i_max THEN i_max + SubtitleChunk ELSE i_max
    /\ rc' = r.rc
    /\ statics' = StaticsOf(r.d)
    /\ sub_fps' = r.d.sub_fps
    /\ met' = met \cup (IF r.rc = VLC_ENOMEM THEN {"oom"} ELSE {})
                  \cup (IF r.undef THEN {"undef"} ELSE {})
    /\ p_sys' = [p_sys EXCEPT
                    !.txt = r.d.txt,
                    !.i_microsecperframe = r.d.i_microsecperframe,
                    !.header_null = r.d.header_null,
                    !.psz_header = r.d.psz_header,
                    !.subtitle = IF r.rc = VLC_SUCCESS THEN Append(@, r.sub) ELSE @,
                    !.i_subtitles = IF r.rc = VLC_SUCCESS THEN @ + 1 ELSE @]
    /\ pc' = CASE r.rc = VLC_SUCCESS -> "parse"
               [] r.rc = CRASH -> "crashed"
               [] OTHER -> "unload"
    /\ ret' = ret

\* "Parse it": one turn of the loop
OpenParse ==
    /\ pc = "parse"
    /\ p_sys.i_subtitles < CueBound(corpus)
    /\ \E f \in Faults(corpus), junk \in Junk :
          IF f = "nomem" /\ p_sys.i_subtitles >= i_max
          THEN OpenNoMemory
          ELSE \E r \in {pf_read(p_sys.i_type, ReaderState(p_sys, sub_fps, statics),
                                 FreshSlot(junk),
                                 [oom |-> f = "oom", crash |-> f = "crash",
                                  junk |-> junk],
                                 p_sys.i_subtitles)} :
                  OpenRead(r)
    /\ UNCHANGED <<job, stream, ctl, statics0, nsessions, corpus>>

\* "Unload" to the end of Open; freeing txt->line a second time is undefined
OpenFinish ==
    /\ pc = "unload"
    /\ \E crash \in BOOLEAN :
          IF p_sys.line_freed /\ crash
          THEN /\ pc' = "crashed"
               /\ met' = met \cup {"undef"}
               /\ UNCHANGED <<p_sys, ret>>
          ELSE /\ pc' = "open"
               /\ ret' = VLC_SUCCESS
               /\ met' = met \cup (IF p_sys.line_freed THEN {"undef"} ELSE {})
               /\ p_sys' = [p_sys EXCEPT
                     !.txt = TextUnload(@),
                     !.i_subtitle = 0,
                     !.i_length = Length(p_sys.subtitle),
                     !.es = [i_codec |-> IF p_sys.i_type \in
                                              {SUB_TYPE_SSA1, SUB_TYPE_SSA2_4, SUB_TYPE_ASS}
                                           THEN "ssa " ELSE "subt",
                             extra_null |-> p_sys.header_null,
                             p_extra |-> p_sys.psz_header]]
    /\ UNCHANGED <<statics, job, stream, sub_fps, i_max, rc, ctl, statics0,
                   nsessions, corpus>>

\* a turn of the parse loop that meets no fault
NoFault == [oom |-> FALSE, crash |-> FALSE, junk |-> 0]

\* the loop of "Parse it" from the reader state d on, when it meets no fault:
\* the cues it adds to subtitle
RECURSIVE ParseAll(_, _)
ParseAll(d, subtitle) ==
    IF Len(subtitle) >= MaxCues THEN subtitle
    ELSE The({ IF r.rc = VLC_SUCCESS THEN ParseAll(r.d, Append(subtitle, r.sub))
               ELSE subtitle :
               r \in {pf_read(d.i_type, d, FreshSlot(0), NoFault, Len(subtitle))} })

\* the cues of a session opened on the job j with the type i_type selected and
\* the static variables st, when it meets no fault
CuesOf(j, i_type, st) ==
    ParseAll(ReaderState([NoSys EXCEPT
                            !.i_type = i_type,
                            !.txt = TextLoad([lines |-> j.file, pos |-> 0]).txt,
                            !.i_microsecperframe =
                                InitialMicrosecPerFrame(j.sub_original_fps, j.sub_fps)],
                         j.sub_fps, st),
             <<>>)

Called(i_query, arg, r, val) ==
    [i_query |-> i_query, arg |-> arg, ret |-> r, val |-> val]

ControlGetLength ==
    /\ pc = "open"
    /\ ctl' = Called("DEMUX_GET_LENGTH", 0, VLC_SUCCESS, p_sys.i_length)
    /\ UNCHANGED <<statics, pc, job, stream, sub_fps, p_sys, i_max, ret, rc,
                   met, statics0, nsessions, corpus>>

ControlGetTime ==
    /\ pc = "open"
    /\ ctl' = IF p_sys.i_subtitle < p_sys.i_subtitles
              THEN Called("DEMUX_GET_TIME", 0, VLC_SUCCESS,
                          p_sys.subtitle[p_sys.i_subtitle + 1].i_start)
              ELSE Called("DEMUX_GET_TIME", 0, VLC_EGENERIC, 0)
    /\ UNCHANGED <<statics, pc, job, stream, sub_fps, p_sys, i_max, ret, rc,
                   met, statics0, nsessions, corpus>>

\* the index is set to i
Sought(i_query, arg, i) ==
    /\ p_sys' = [p_sys EXCEPT !.i_subtitle = i]
    /\ ctl' = Called(i_query, arg,
                     IF i >= p_sys.i_subtitles THEN VLC_EGENERIC ELSE VLC_SUCCESS, 0)

ControlSetTime ==
    /\ pc = "open"
    /\ \E i64 \in TimeArgs(corpus) :
          \E i \in {SeekFrom(p_sys.subtitle, 0, i64)} :
              Sought("DEMUX_SET_TIME", i64, i)
    /\ UNCHANGED <<statics, pc, job, stream, sub_fps, i_max, ret, rc, met,
                   statics0, nsessions, corpus>>

\* a faulty variant of ControlSetPosition: the scan starts at the index the
\* session is at, p_sys->i_subtitle = 0 left out
ControlSetPositionFromIndex ==
    /\ pc = "open"
    /\ \E f \in PositionArgs(corpus) :
          \E i \in {SeekFrom(p_sys.subtitle, p_sys.i_subtitle,
                              CDiv(f * p_sys.i_length, 4))} :
              Sought("DEMUX_SET_POSITION", f, i)
    /\ UNCHANGED <<statics, pc, job, stream, sub_fps, i_max, ret, rc, met,
                   statics0, nsessions, corpus>>

\* i64 = f * p_sys->i_length, f in quarters
ControlSetPosition ==
    /\ pc = "open"
    /\ \E f \in PositionArgs(corpus) :
          \E i \in {SeekFrom(p_sys.subtitle, 0, CDiv(f * p_sys.i_length, 4))} :
              Sought("DEMUX_SET_POSITION", f, i)
    /\ UNCHANGED <<statics, pc, job, stream, sub_fps, i_max, ret, rc, met,
                   statics0, nsessions, corpus>>

\* Close: the session and all it held are gone; the static variables stay
Close ==
    /\ pc = "open"
    /\ pc' = "idle"
    /\ p_sys' = NoSys
    /\ job' = NoJob
    /\ stream' = NoStream
    /\ sub_fps' = 0
    /\ i_max' = 0
    /\ ret' = "none"
    /\ rc' = "none"
    /\ ctl' = NoCtl
    /\ met' = {}
    /\ statics0' = statics
    /\ UNCHANGED <<statics, nsessions, corpus>>

Next ==
    \/ OpenBegin
    \/ OpenProbe
    \/ OpenRewind
    \/ OpenSelect
    \/ OpenLoad
    \/ OpenParse
    \/ OpenFinish
    \/ ControlGetLength
    \/ ControlGetTime
    \/ ControlSetTime
    \/ ControlSetPosition
    \/ Close

InitFormats == InitOn("formats")
InitProbe   == InitOn("probe")
InitStatics == InitOn("statics")
InitSeek    == InitOn("seek")
InitCues    == InitOn("cues")
InitSsa     == InitOn("ssa")

Spec        == InitFormats /\ [][Next]_vars
SpecProbe   == InitProbe /\ [][Next]_vars
SpecStatics == InitStatics /\ [][Next]_vars
SpecSeek    == InitSeek /\ [][Next]_vars
SpecCues    == InitCues /\ [][Next]_vars
SpecSsa     == InitSsa /\ [][Next]_vars

(***************************************************************************)
(* The text_t alone: TextGetLine, TextPreviousLine and the txt->i_line-- of *)
(* ParseAQT called in any order on a loaded file.  ctl holds the last      *)
(* calls, at most CallsKept of them, the latest last: which call, the      *)
(* position it found, and for TextGetLine what it returned.                *)
(***************************************************************************)
CallsKept == 3

CursorFiles ==
    {<<LnProse>>, <<LnAqt, LnProse>>, <<LnAqt, LnProse, LnAqt2>>,
     <<LnAqt2, LnBlank, LnProse, LnAqt>>}

CursorCall(call, at, null, s) == [call |-> call, at |-> at, null |-> null, s |-> s]

Kept(calls) == SubSeq(calls, Max({1, Len(calls) - CallsKept + 1}), Len(calls))

InitCursor ==
    /\ statics = InitialStatics
    /\ pc = "cursor"
    /\ job = NoJob
    /\ stream = NoStream
    /\ sub_fps = 0
    /\ \E f \in CursorFiles :
          p_sys = [NoSys EXCEPT !.txt = TextLoad([lines |-> f, pos |-> 0]).txt]
    /\ i_max = 0
    /\ ret = "none"
    /\ rc = "none"
    /\ ctl = <<>>
    /\ met = {}
    /\ statics0 = InitialStatics
    /\ nsessions = 0
    /\ corpus = "cursor"

CursorGetLine ==
    /\ pc = "cursor"
    /\ \E g \in {TextGetLine(p_sys.txt)} :
          /\ p_sys' = [p_sys EXCEPT !.txt = g.txt]
          /\ ctl' = Kept(Append(ctl, CursorCall("TextGetLine", p_sys.txt.i_line, g.null, g.s)))
    /\ UNCHANGED <<statics, pc, job, stream, sub_fps, i_max, ret, rc, met, statics0,
                   nsessions, corpus>>

CursorPreviousLine ==
    /\ pc = "cursor"
    /\ p_sys' = [p_sys EXCEPT !.txt = TextPreviousLine(@)]
    /\ ctl' = Kept(Append(ctl, CursorCall("TextPreviousLine", p_sys.txt.i_line, TRUE, <<>>)))
    /\ UNCHANGED <<statics, pc, job, stream, sub_fps, i_max, ret, rc, met, statics0,
                   nsessions, corpus>>

\* ParseAQT: txt->i_line--, on the "-->>" line that TextGetLine has just returned
CursorAqtBack ==
    /\ pc = "cursor"
    /\ ctl # <<>>
    /\ ctl[Len(ctl)].call = "TextGetLine"
    /\ ~ctl[Len(ctl)].null
    /\ sscanf(ctl[Len(ctl)].s, FmtAQT).n = 1
    /\ p_sys' = [p_sys EXCEPT !.txt.i_line = @ - 1]
    /\ ctl' = Kept(Append(ctl, CursorCall("i_line--", p_sys.txt.i_line, TRUE, <<>>)))
    /\ UNCHANGED <<statics, pc, job, stream, sub_fps, i_max, ret, rc, met, statics0,
                   nsessions, corpus>>

NextCursor ==
    \/ CursorGetLine
    \/ CursorPreviousLine
    \/ CursorAqtBack

SpecCursor == InitCursor /\ [][NextCursor]_vars

(***************************************************************************)
(* The claims.                                                             *)
(***************************************************************************)
\* a session that Open completed and that met neither a failed allocation,
\* nor undefined behaviour, nor a failed rewind
Clean == pc = "open" /\ met \cap {"oom", "undef", "rewind_failed"} = {}

\* C1: the cues of an MPSub session are those it produces when it is the only
\* session the process ever runs, the running total starting at zero
C1_MPSubFreshTotal ==
    (Clean /\ p_sys.i_type = SUB_TYPE_MPSUB)
        => p_sys.subtitle = CuesOf(job, SUB_TYPE_MPSUB, InitialStatics)

\* C2: a JacoSub session starts with shift 0, resolution 30 and comment depth
\* 0, and its cues are those it produces when no session came before it
C2_JacoSubFreshState ==
    (Clean /\ p_sys.i_type = SUB_TYPE_JACOSUB)
        => /\ statics0.jss_time_shift = 0
           /\ statics0.jss_time_resolution = 30
           /\ statics0.i_comment = 0
           /\ p_sys.subtitle = CuesOf(job, SUB_TYPE_JACOSUB, InitialStatics)

\* C3: a session on an input of zero lines never completes successfully
C3_EmptyInputFails == ~(pc = "open" /\ job.file = <<>>)

\* C4: a session whose format name is neither a name of the table nor "auto"
\* (nor empty, the name not given) never probes the input
C4_UnknownNameFails ==
    (job.b_force /\ job.sub_type \notin TypeNames \cup {"auto", ""})
        => /\ "probe" \notin met
           /\ pc \notin {"probe", "rewind", "load", "parse", "unload", "open"}

\* C5: when a call of the reader returned VLC_ENOMEM, Open does not return
\* VLC_SUCCESS with the cues read so far
C5_OutOfMemoryAborts == ~(pc = "open" /\ rc = VLC_ENOMEM)

\* the signatures that do not end the scan of the probe
WeakTypes == {SUB_TYPE_JACOSUB, SUB_TYPE_MPSUB, SUB_TYPE_AQT, SUB_TYPE_PJS}

\* the first 256 lines of a file, which are all the probe may read
First256(file) == SubSeq(file, 1, Min({Len(file), ProbeMax}))

\* the lines of a file that carry a signature, strong or weak, and a strong one
Signed(file) ==
    {k \in 1..Len(file) : ProbeLine(file[k]).i_type # SUB_TYPE_UNKNOWN}

Strong(file) ==
    {k \in Signed(file) : ProbeLine(file[k]).i_type \notin WeakTypes}

\* the probe is over and the stream not yet rewound
Probed == pc = "rewind"

\* C6: when a line among the first 256 carries a strong signature, the probe
\* detects the format of the first such line, whatever the lines before it
\* matched, and has read no line after it
C6_StrongOverWeak ==
    (Probed /\ Strong(First256(job.file)) # {})
        => /\ p_sys.i_type = ProbeLine(job.file[Min(Strong(First256(job.file)))]).i_type
           /\ stream.pos = Min(Strong(First256(job.file)))

\* a weak line, then a strong one, then a strong one of another format: the
\* probe stopped at the second line
C6_Witness ==
    /\ Probed
    /\ job.file = <<LnPjs, LnMicroDvd, LnVplayer>>
    /\ p_sys.i_type = SUB_TYPE_MICRODVD
    /\ stream.pos = 2

\* C7: the format detected is the one detected on the first 256 lines alone,
\* and when none of these carries a signature the type stays unknown and Open
\* fails with no cue, whatever the lines after them
C7_ScanBound ==
    /\ Probed => p_sys.i_type =
                    ProbeLoop([lines |-> First256(job.file), pos |-> 0],
                              SUB_TYPE_UNKNOWN).i_type
    /\ ("probe" \in met /\ Signed(First256(job.file)) = {})
           => \/ pc \in {"rewind", "select"} /\ p_sys.i_type = SUB_TYPE_UNKNOWN
              \/ pc = "idle" /\ ret = VLC_EGENERIC /\ p_sys.subtitle = <<>>

\* Open failed on a file whose line 257 carries a signature
C7_Witness ==
    /\ pc = "idle"
    /\ ret = VLC_EGENERIC
    /\ "probe" \in met
    /\ Len(job.file) > ProbeMax
    /\ ProbeMax + 1 \in Strong(job.file)

\* C8: after a probe and a rewind that succeeded, the cues are those of the
\* same input with the detected format selected by name
C8_RewindThenParse ==
    (Clean /\ "probe" \in met) => p_sys.subtitle = CuesOf(job, p_sys.i_type, statics0)

\* a probed session whose cue comes from the line the probe stopped at
C8_Witness ==
    /\ Clean
    /\ "probe" \in met
    /\ job.file = <<LnPjs, LnMicroDvd, LnVplayer>>
    /\ p_sys.i_subtitles = 1
    /\ p_sys.subtitle[1].i_start = 400000

\* the duration of a cue sequence: the stop of the last cue, its start + 1 when
\* the stop is not positive, 0 without cues
Duration(subtitle) ==
    IF subtitle = <<>> THEN 0
    ELSE IF subtitle[Len(subtitle)].i_stop > 0 THEN subtitle[Len(subtitle)].i_stop
    ELSE subtitle[Len(subtitle)].i_start + 1

\* C9: once Open returned, i_length is the stop of the last cue read, its
\* start + 1 when that stop is zero or negative, 0 when no cue was read; and
\* DEMUX_GET_LENGTH returns it
C9_Duration ==
    pc = "open"
        => /\ p_sys.i_length = Duration(p_sys.subtitle)
           /\ ctl.i_query = "DEMUX_GET_LENGTH"
                  => ctl.ret = VLC_SUCCESS /\ ctl.val = Duration(p_sys.subtitle)

\* the last cue read is not the latest in time: the duration is its stop
C9_Witness ==
    /\ pc = "open"
    /\ ctl.i_query = "DEMUX_GET_LENGTH"
    /\ p_sys.i_subtitles = 2
    /\ p_sys.subtitle[1].i_start = 1200000
    /\ p_sys.subtitle[2].i_stop = 800000
    /\ ctl.val = 800000

\* the cues of a sequence that start at t or later
StartingFrom(subtitle, t) == {k \in 1..Len(subtitle) : subtitle[k].i_start >= t}

\* C10: DEMUX_SET_TIME leaves the index at the first cue, in the order of the
\* sequence, that starts at the time asked or later, and returns VLC_SUCCESS;
\* when there is none it returns VLC_EGENERIC
C10_SeekByTime ==
    (pc = "open" /\ ctl.i_query = "DEMUX_SET_TIME")
        => IF StartingFrom(p_sys.subtitle, ctl.arg) = {}
           THEN ctl.ret = VLC_EGENERIC
           ELSE /\ ctl.ret = VLC_SUCCESS
                /\ p_sys.i_subtitle = Min(StartingFrom(p_sys.subtitle, ctl.arg)) - 1

\* three cues with increasing starts, and the time of the last one asked: the
\* index is 2
C10_Witness ==
    /\ pc = "open"
    /\ ctl.i_query = "DEMUX_SET_TIME"
    /\ p_sys.i_subtitles = 3
    /\ \A k \in 1..2 : p_sys.subtitle[k].i_start < p_sys.subtitle[k + 1].i_start
    /\ ctl.arg = p_sys.subtitle[3].i_start
    /\ ctl.ret = VLC_SUCCESS
    /\ p_sys.i_subtitle = 2

\* C11: DEMUX_SET_POSITION with the fraction f leaves the index and returns
\* what DEMUX_SET_TIME does with the time f x duration, whatever the index was
\* before the call
C11_SeekByFraction ==
    (pc = "open" /\ ctl.i_query = "DEMUX_SET_POSITION")
        => /\ p_sys.i_subtitle =
                  SeekFrom(p_sys.subtitle, 0,
                           CDiv(ctl.arg * Duration(p_sys.subtitle), 4))
           /\ ctl.ret = IF StartingFrom(p_sys.subtitle,
                                       CDiv(ctl.arg * Duration(p_sys.subtitle), 4)) = {}
                        THEN VLC_EGENERIC ELSE VLC_SUCCESS

\* three cues, the last of duration 1200001, and a quarter of it asked: the
\* index is that of the second cue, which starts at 400000
C11_Witness ==
    /\ pc = "open"
    /\ ctl.i_query = "DEMUX_SET_POSITION"
    /\ ctl.arg = 1
    /\ p_sys.i_subtitles = 3
    /\ p_sys.i_length = 1200001
    /\ p_sys.subtitle[2].i_start = 400000
    /\ p_sys.i_subtitle = 1
    /\ ctl.ret = VLC_SUCCESS

\* a line that no reader takes for the start of a cue
Malformed == {LnProse}

\* the reader is called, and the line it reads first is no start of a cue
AtMalformed ==
    /\ pc = "parse"
    /\ p_sys.txt.i_line < p_sys.txt.i_line_count
    /\ p_sys.txt.line[p_sys.txt.i_line + 1] \in Malformed

\* what the reader returns, the cue and the lines left, when called on the
\* lines of the session from line i_line + 1 on
ReadFrom(i_line) ==
    The({ [rc |-> r.rc, sub |-> r.sub, i_line |-> r.d.txt.i_line, undef |-> r.undef] :
          r \in {pf_read(p_sys.i_type,
                         ReaderState([p_sys EXCEPT !.txt.i_line = i_line],
                                     sub_fps, statics),
                         FreshSlot(0), NoFault, p_sys.i_subtitles)} })

\* C12, as the specification states it: a line that is no start of a cue, met
\* by a reader that looks for one, is dropped: the reader returns what it
\* returns when called on the lines after it
C12_MalformedDiscarded ==
    AtMalformed => ReadFrom(p_sys.txt.i_line) = ReadFrom(p_sys.txt.i_line + 1)

\* the formats whose cues are blocks of lines up to a terminator
BlockTypes ==
    {SUB_TYPE_SUBRIP, SUB_TYPE_SUBVIEWER, SUB_TYPE_DVDSUBTITLE, SUB_TYPE_MPSUB}

\* the line s ends a block of the format: an empty line, or a line that is "}"
Terminates(i_type, s) ==
    IF i_type = SUB_TYPE_DVDSUBTITLE THEN s = <<"}">> ELSE Len(s) = 0

\* the line s starts a block of the format
Opens(i_type, s) ==
    CASE i_type = SUB_TYPE_SUBRIP      -> sscanf(s, FmtSubRip).n = 8
      [] i_type = SUB_TYPE_SUBVIEWER   -> sscanf(s, FmtSubViewer).n = 8
      [] i_type = SUB_TYPE_DVDSUBTITLE -> sscanf(s, FmtDVDSubtitle).n = 4
      [] i_type = SUB_TYPE_MPSUB       -> sscanf(s, FmtMPSubData).n = 2
      [] OTHER -> FALSE

\* the last line of the file that ends a block, 0 when there is none
Closed(i_type, file) ==
    Max({0} \cup {k \in 1..Len(file) : Terminates(i_type, file[k])})

\* the input ends while a block waits for its terminator
Unterminated(i_type, file) ==
    \E k \in (Closed(i_type, file) + 1)..Len(file) : Opens(i_type, file[k])

\* C13: when the input of a SubRip, SubViewer, DVDSubtitle or MPSub session
\* ends inside a block, the last call of the reader returns VLC_EGENERIC, Open
\* returns VLC_SUCCESS, and the cues are those of the lines up to the last
\* terminator: the cues read before are kept and the open block gives none
C13_UnterminatedBlock ==
    (Clean /\ p_sys.i_type \in BlockTypes /\ Unterminated(p_sys.i_type, job.file))
        => /\ rc = VLC_EGENERIC
           /\ ret = VLC_SUCCESS
           /\ p_sys.subtitle =
                  CuesOf([job EXCEPT !.file = SubSeq(@, 1, Closed(p_sys.i_type, job.file))],
                         p_sys.i_type, statics0)

\* a SubRip block, closed, then one the input ends in: one cue
C13_Witness ==
    /\ Clean
    /\ p_sys.i_type = SUB_TYPE_SUBRIP
    /\ job.file = <<LnSubRip, LnBr, LnBlank, LnSubRip, LnProse>>
    /\ rc = VLC_EGENERIC
    /\ p_sys.i_subtitles = 1
    /\ p_sys.subtitle[1].i_stop = 2500000

\* cues that are well formed and odd: the format, the lines of the cue, and the
\* cue they stand for at 40000 microseconds a frame (times zero, negative, a
\* text that is empty)
OddCues ==
    {[i_type |-> SUB_TYPE_MICRODVD, lines |-> <<LnMicroDvdNeg>>,
      cue |-> [i_start |-> -120000, i_stop |-> -80000, psz_text |-> <<"d">>]],
     [i_type |-> SUB_TYPE_MICRODVD, lines |-> <<LnMicroDvdZero>>,
      cue |-> [i_start |-> 0, i_stop |-> 0, psz_text |-> <<"e">>]],
     [i_type |-> SUB_TYPE_MICRODVD, lines |-> <<LnMicroDvdEmpty>>,
      cue |-> [i_start |-> 4000000, i_stop |-> 8000000, psz_text |-> <<>>]],
     [i_type |-> SUB_TYPE_SUBRIP, lines |-> <<LnSubRip, LnBlank>>,
      cue |-> [i_start |-> 1000000, i_stop |-> 2500000, psz_text |-> <<>>]],
     [i_type |-> SUB_TYPE_MPL2, lines |-> <<LnMpl2Empty>>,
      cue |-> [i_start |-> 1000000, i_stop |-> 2000000, psz_text |-> <<>>]]}

\* the reader is called and the lines it reads first are those of the cue o
AtCue(o) ==
    /\ pc = "parse"
    /\ p_sys.i_type = o.i_type
    /\ p_sys.i_microsecperframe = 40000
    /\ p_sys.txt.i_line + Len(o.lines) <= p_sys.txt.i_line_count
    /\ SubSeq(p_sys.txt.line, p_sys.txt.i_line + 1,
              p_sys.txt.i_line + Len(o.lines)) = o.lines

\* C14, as the specification states it: a reader called on a well-formed cue
\* with zero or negative times or an empty text returns that cue
C14_OddCuesKept ==
    \A o \in OddCues :
        AtCue(o) => ReadFrom(p_sys.txt.i_line) =
                        [rc |-> VLC_SUCCESS, sub |-> o.cue,
                         i_line |-> p_sys.txt.i_line + Len(o.lines), undef |-> FALSE]

\* what the lines of the MicroDVD files are: a cue with its frames and text, a
\* declaration of the frame rate (in thousandths; 0 when the text is no
\* positive rate), or neither
MicroDvdLine(s) ==
    CASE s = LnMicroDvd       -> [is |-> "cue", start |-> 10, stop |-> 20, text |-> <<"a", "\n", "b">>]
      [] s = LnMicroDvdOpen   -> [is |-> "cue", start |-> 30, stop |-> 0, text |-> <<"c">>]
      [] s = LnMicroDvdNeg    -> [is |-> "cue", start |-> -3, stop |-> -2, text |-> <<"d">>]
      [] s = LnMicroDvdZero   -> [is |-> "cue", start |-> 0, stop |-> 0, text |-> <<"e">>]
      [] s = LnMicroDvdFps    -> [is |-> "rate", fps |-> 50000]
      [] s = LnMicroDvdNoRate -> [is |-> "rate", fps |-> 0]
      [] OTHER                -> [is |-> "none"]

\* the cues of the MicroDVD lines k.. of file after the cues acc, the frame
\* lasting dur microseconds: a declaration replaces dur when its rate is
\* positive and no override is in effect
RECURSIVE MicroDvdCues(_, _, _, _, _)
MicroDvdCues(file, k, dur, override, acc) ==
    IF k > Len(file) THEN acc
    ELSE The({
        CASE l.is = "cue" ->
               MicroDvdCues(file, k + 1, dur, override,
                            Append(acc, [i_start |-> l.start * dur,
                                         i_stop |-> l.stop * dur,
                                         psz_text |-> l.text]))
          [] l.is = "rate" ->
               MicroDvdCues(file, k + 1,
                            IF l.fps > 0 /\ ~override THEN (1000000 * 1000) \div l.fps ELSE dur,
                            override, acc)
          [] OTHER -> MicroDvdCues(file, k + 1, dur, override, acc) :
        l \in {MicroDvdLine(file[k])} })

\* the frame a session starts with, in microseconds: that of the override when
\* one is in effect (a rate of 1.0 or more), else that of the rate of the
\* source when it is 1.0 or more, else 40000
FrameOf(j) ==
    IF j.sub_fps >= 1000 THEN (1000000 * 1000) \div j.sub_fps
    ELSE IF j.sub_original_fps >= 1000 THEN (1000000 * 1000) \div j.sub_original_fps
    ELSE 40000

\* C15, as the specification states it: the cues of a MicroDVD session, a line
\* {1}{1} giving no cue and replacing the frame duration by 1000000 / fps
\* exactly when its text is a positive rate and no override of 1.0 or more is
\* in effect
C15_MicroDvdFrameRate ==
    (Clean /\ p_sys.i_type = SUB_TYPE_MICRODVD
           /\ \A k \in 1..Len(job.file) : job.file[k] \notin {LnMicroDvdEmpty})
        => p_sys.subtitle =
               MicroDvdCues(job.file, 1, FrameOf(job), job.sub_fps >= 1000, <<>>)

SsaTypes == {SUB_TYPE_SSA1, SUB_TYPE_SSA2_4, SUB_TYPE_ASS}

\* a line the pattern of ParseSSA reads whole, all ten fields of it
IsDialogue(s) == sscanf(s, FmtSSA).n = 10

\* the lines of file from k on that are no Dialogue line, each with a line
\* break after it, in the order of the file
RECURSIVE HeaderOf(_, _)
HeaderOf(file, k) ==
    IF k > Len(file) THEN <<>>
    ELSE (IF IsDialogue(file[k]) THEN <<>> ELSE file[k] \o <<"\n">>)
             \o HeaderOf(file, k + 1)

\* C16: once an SSA-v1, SSA2-4 or ASS session is opened the extra data of its
\* stream is every line of the file that is no Dialogue line, in file order,
\* each followed by a line break, those after the last Dialogue line included,
\* and there is none exactly when the file has no such line; a session of any
\* other type has no extra data
C16_SsaHeader ==
    Clean =>
        IF p_sys.i_type \in SsaTypes
        THEN /\ p_sys.es.p_extra = HeaderOf(job.file, 1)
             /\ p_sys.es.extra_null = (HeaderOf(job.file, 1) = <<>>)
             /\ p_sys.es.i_codec = "ssa "
        ELSE /\ p_sys.es.extra_null
             /\ p_sys.es.i_codec = "subt"

C16_Witness ==
    /\ Clean
    /\ p_sys.i_type = SUB_TYPE_ASS
    /\ job.file = <<LnProse, LnDialogue, LnMarked, LnProse>>
    /\ p_sys.i_subtitles = 2
    /\ ~p_sys.es.extra_null
    /\ p_sys.es.p_extra = <<"x", "\n", "x", "\n">>

\* the Dialogue lines of file, in the order of the file
DialogueLines(file) == SelectSeq(file, IsDialogue)

\* the fields of a Dialogue line after its two times, and its first field
RestOf(s) == sscanf(s, FmtSSA).v[10]
LayerOf(s) == atoi(sscanf(s, FmtSSA).v[1])

\* the text of the cue of index k, from 0, made of the Dialogue line s
PrefixedText(i_type, k, s) ==
    CASE i_type = SUB_TYPE_SSA1   -> <<",">> \o RestOf(s)
      [] i_type = SUB_TYPE_SSA2_4 -> Dec(k) \o <<",", "0", ",">> \o RestOf(s)
      [] i_type = SUB_TYPE_ASS    -> Dec(k) \o <<",">> \o Dec(LayerOf(s)) \o <<",">>
                                         \o RestOf(s)

\* C17: the cues of an SSA-v1, SSA2-4 or ASS session are one for each Dialogue
\* line, in file order, and the text of the k-th, k counted from 0, is the
\* fields after the times with "," before them for SSA-v1, "k,0," for SSA2-4
\* and "k,<Layer>," for ASS, Layer being the number the first field holds
C17_SsaPrefix ==
    (Clean /\ p_sys.i_type \in SsaTypes) =>
        /\ p_sys.i_subtitles = Len(DialogueLines(job.file))
        /\ \A k \in 1..p_sys.i_subtitles :
              p_sys.subtitle[k].psz_text =
                  PrefixedText(p_sys.i_type, k - 1, DialogueLines(job.file)[k])

\* the lines of file from k on that open a cue of ParseMPSub: a FORMAT or a
\* data line met while no text is being read, the text ending at an empty line
RECURSIVE MPSubHeads(_, _, _, _)
MPSubHeads(file, k, intext, acc) ==
    IF k > Len(file) THEN IF intext THEN SubSeq(acc, 1, Len(acc) - 1) ELSE acc
    ELSE IF intext THEN MPSubHeads(file, k + 1, Len(file[k]) # 0, acc)
    ELSE IF MPSubLine(file[k]) THEN MPSubHeads(file, k + 1, TRUE, Append(acc, file[k]))
    ELSE MPSubHeads(file, k + 1, FALSE, acc)

\* a line of two numbers, and the two numbers, in thousandths
MPSubIsData(s) ==
    /\ ~MPSubTime(s)
    /\ sscanf(s, FmtMPSubFormat).n = 0
    /\ sscanf(s, FmtMPSubData).n = 2
MPSubF(s, i) == sscanf(s, FmtMPSubData).v[i]

\* the scale in force at the k-th head: that of the last FORMAT line before
\* it, the one the session started with when there is none
RECURSIVE MPSubScale(_, _, _)
MPSubScale(heads, k, scale0) ==
    IF k = 0 THEN scale0
    ELSE IF MPSubTime(heads[k]) THEN 100
    ELSE IF ~MPSubIsData(heads[k]) THEN 1
    ELSE MPSubScale(heads, k - 1, scale0)

\* the session is opened and no allocation failed
Opened == pc = "open" /\ met \cap {"oom", "rewind_failed"} = {}

\* the cues k and k + 1 of the session both come of a data line
DataPair(heads, k) == MPSubIsData(heads[k]) /\ MPSubIsData(heads[k + 1])

\* the times of the second of two data cues, the total carried over being the
\* stop of the first (times are in units of 100 us, the numbers in thousandths)
MPSubCarried(heads, k) ==
    \E scale \in {MPSubScale(heads, k, statics0.mpsub_factor)} :
        /\ p_sys.subtitle[k + 1].i_start =
              p_sys.subtitle[k].i_stop + 10 * MPSubF(heads[k + 1], 1) * scale
        /\ p_sys.subtitle[k + 1].i_stop =
              p_sys.subtitle[k + 1].i_start + 10 * MPSubF(heads[k + 1], 2) * scale

\* C18: in an MPSub session the cues of two data lines that follow one another
\* have strictly increasing starts, the second starting no earlier than the
\* first stops, and the second has start = (total + f1 * scale) * 10000 and
\* stop = (that + f2 * scale) * 10000, the total being where the first stopped
C18_MPSubRunningTotal ==
    (Opened /\ p_sys.i_type = SUB_TYPE_MPSUB) =>
        \A heads \in {MPSubHeads(job.file, 1, FALSE, <<>>)} :
            /\ Len(heads) = p_sys.i_subtitles
            /\ \A k \in 1..(p_sys.i_subtitles - 1) :
                  DataPair(heads, k) =>
                      /\ p_sys.subtitle[k + 1].i_start > p_sys.subtitle[k].i_start
                      /\ p_sys.subtitle[k + 1].i_start >= p_sys.subtitle[k].i_stop
                      /\ MPSubCarried(heads, k)

\* C18, as the code has it: the second of two data cues has
\* start = (total + f1 * scale) * 10000 and stop = (that + f2 * scale) * 10000,
\* the total being where the first stopped; it starts no earlier than the
\* first stops exactly when f1 * scale >= 0, and later than the first starts
\* exactly when (f2 of the first + f1) * scale > 0
C18_MPSubCarriedTotal ==
    (Opened /\ p_sys.i_type = SUB_TYPE_MPSUB) =>
        \A heads \in {MPSubHeads(job.file, 1, FALSE, <<>>)} :
            /\ Len(heads) = p_sys.i_subtitles
            /\ \A k \in 1..(p_sys.i_subtitles - 1) :
                  DataPair(heads, k) =>
                    \E scale \in {MPSubScale(heads, k, statics0.mpsub_factor)} :
                      /\ MPSubCarried(heads, k)
                      /\ (p_sys.subtitle[k + 1].i_start >= p_sys.subtitle[k].i_stop)
                            = (MPSubF(heads[k + 1], 1) * scale >= 0)
                      /\ (p_sys.subtitle[k + 1].i_start > p_sys.subtitle[k].i_start)
                            = ((MPSubF(heads[k], 2) + MPSubF(heads[k + 1], 1)) * scale > 0)

C18_Witness ==
    /\ Opened
    /\ p_sys.i_type = SUB_TYPE_MPSUB
    /\ job.file = <<LnMpsubTime, LnBlank, LnMpsubData, LnProse, LnBlank, LnMpsubData2,
                    LnProse, LnBlank>>
    /\ statics0.mpsub_total = 0
    /\ p_sys.i_subtitles = 3
    /\ p_sys.subtitle[2].i_start = 1000000
    /\ p_sys.subtitle[2].i_stop = 3000000
    /\ p_sys.subtitle[3].i_start = 3500000
    /\ p_sys.subtitle[3].i_stop = 5000000

\* the "-->>" lines of file, in the order of the file, and the number of one
IsAqtMarker(s) == sscanf(s, FmtAQT).n = 1
AqtMarkers(file) == SelectSeq(file, IsAqtMarker)
AqtValue(s) == sscanf(s, FmtAQT).v[1]

\* C19: in an AQTitle session on a file that ends with a line of text, every
\* "-->>" line opens a cue, the last one closed by the end of the input, and
\* the k-th cue has the number of the k-th "-->>" line for its start, the line
\* that closes it leaving that start alone, and 0 for its stop
C19_AqtBlock ==
    (Opened /\ p_sys.i_type = SUB_TYPE_AQT /\ job.file # <<>>
            /\ ~IsAqtMarker(job.file[Len(job.file)])
            /\ AqtMarkers(job.file) # <<>>) =>
        /\ p_sys.i_subtitles = Len(AqtMarkers(job.file))
        /\ \A k \in 1..p_sys.i_subtitles :
              /\ p_sys.subtitle[k].i_start = AqtValue(AqtMarkers(job.file)[k])
              /\ p_sys.subtitle[k].i_stop = 0

\* the line s ends with a backslash
EndsWithBackslash(s) == Len(s) > 0 /\ s[Len(s)] = "\\"

\* file with its first line, which ends with a backslash, and its second made
\* one line: the backslash dropped, the second line put in its place
Spliced(file) ==
    <<SubSeq(file[1], 1, Len(file[1]) - 1) \o file[2]>> \o SubSeq(file, 3, Len(file))

\* C20: a JacoSub cue line that ends with a backslash takes the next line of
\* the file into its text: the session has the cues of the file in which the
\* two lines are one, so the text of the next line is at the end of the text
\* of the cue and the next line gives no cue of its own
C20_JssSplice ==
    (Clean /\ p_sys.i_type = SUB_TYPE_JACOSUB /\ Len(job.file) >= 2
           /\ EndsWithBackslash(job.file[1])) =>
        p_sys.subtitle =
            CuesOf([job EXCEPT !.file = Spliced(@)], SUB_TYPE_JACOSUB, statics0)

\* the k-th call before the latest one
Ago(k) == ctl[Len(ctl) - k]

\* the three latest calls are a TextGetLine, a push back and a TextGetLine
GetBackGet ==
    /\ Len(ctl) >= 3
    /\ Ago(2).call = "TextGetLine"
    /\ Ago(1).call \in {"TextPreviousLine", "i_line--"}
    /\ Ago(0).call = "TextGetLine"

\* the position stays within 0..i_line_count; TextGetLine returns the line at
\* the position and moves on by one, and returns NULL, moving nothing, exactly
\* at i_line_count; a push back moves back by one, at position 0 by nothing
CursorSteps ==
    /\ p_sys.txt.i_line \in 0..p_sys.txt.i_line_count
    /\ \A k \in 1..Len(ctl) :
          \E now \in {IF k < Len(ctl) THEN ctl[k + 1].at ELSE p_sys.txt.i_line} :
              IF ctl[k].call = "TextGetLine"
              THEN /\ ctl[k].null = (ctl[k].at = p_sys.txt.i_line_count)
                   /\ ctl[k].null => now = ctl[k].at
                   /\ ~ctl[k].null => /\ ctl[k].s = p_sys.txt.line[ctl[k].at + 1]
                                       /\ now = ctl[k].at + 1
              ELSE now = IF ctl[k].at = 0 THEN 0 ELSE ctl[k].at - 1

\* C21: the position of a text_t stays within 0..i_line_count under any calls;
\* TextGetLine returns the lines in file order and NULL exactly at
\* i_line_count; a push back moves back one line, nothing at position 0, and
\* the TextGetLine straight after a push back returns what the TextGetLine
\* before it returned
C21_LineCursor ==
    pc = "cursor" =>
        /\ CursorSteps
        /\ GetBackGet => /\ Ago(0).null = Ago(2).null
                          /\ Ago(0).s = Ago(2).s

\* C21, as the code has it: the TextGetLine straight after a push back returns
\* what the TextGetLine before it returned when that one returned a line; when
\* it returned NULL the push back steps onto the last line, which the
\* TextGetLine after it returns
C21_LineCursorBack ==
    pc = "cursor" =>
        /\ CursorSteps
        /\ GetBackGet =>
              IF Ago(2).null
              THEN /\ ~Ago(0).null
                   /\ Ago(0).s = p_sys.txt.line[p_sys.txt.i_line_count]
              ELSE /\ ~Ago(0).null
                   /\ Ago(0).s = Ago(2).s

C21_Witness ==
    /\ pc = "cursor"
    /\ GetBackGet
    /\ Ago(2).at = 1
    /\ Ago(2).s = LnProse
    /\ Ago(1).call = "TextPreviousLine"
    /\ Ago(0).s = LnProse
    /\ p_sys.txt.i_line = 2
    /\ p_sys.txt.i_line_count = 3

\* cue lines whose text is made of letters, '~', '{' and '}' only
CommentLines == {LnJss, LnJssClose, LnJssComment, LnJssNested}

\* the text s from position k on with its comments taken out, depth being the
\* comments open at k and out the text before k: '{' opens a comment, '}'
\* closes the innermost one, '~' stands for a blank
RECURSIVE Uncommented(_, _, _, _)
Uncommented(s, k, depth, out) ==
    IF k > Len(s) THEN [out |-> out, depth |-> depth]
    ELSE CASE s[k] = "{" -> Uncommented(s, k + 1, depth + 1, out)
           [] s[k] = "}" -> Uncommented(s, k + 1, Max({depth - 1, 0}), out)
           [] OTHER -> Uncommented(s, k + 1, depth,
                                   IF depth > 0 THEN out
                                   ELSE Append(out, IF s[k] = "~" THEN " " ELSE s[k]))

\* the text of the k-th line of file with its comments taken out, depth being
\* the comments open at the first line
RECURSIVE UncommentedLine(_, _, _)
UncommentedLine(file, k, depth) ==
    IF k = 1 THEN Uncommented(sscanf(file[1], FmtJSS).v[9], 1, depth, <<>>)
    ELSE Uncommented(sscanf(file[k], FmtJSS).v[9], 1,
                     UncommentedLine(file, k - 1, depth).depth, <<>>)

\* C22: the text of a JacoSub cue is the text of its line without its
\* comments: '{' opens a comment, '}' closes one, what is inside a comment, a
\* comment inside a comment included up to the '}' of the outermost, is
\* dropped, and no brace is in the text
C22_JssComments ==
    (Clean /\ p_sys.i_type = SUB_TYPE_JACOSUB
           /\ \A k \in 1..Len(job.file) : job.file[k] \in CommentLines) =>
        /\ p_sys.i_subtitles = Len(job.file)
        /\ \A k \in 1..p_sys.i_subtitles :
              p_sys.subtitle[k].psz_text =
                  UncommentedLine(job.file, k, statics0.i_comment).out

\* C23: a call of a reader that returns a cue leaves txt->i_line at least one
\* line further than it found it, so the parse loop of Open meets the end of
\* the input after finitely many calls and a session has no more cues than
\* its file has lines
C23_AssemblyTerminates ==
    /\ pc = "parse" =>
          /\ p_sys.i_subtitles <= p_sys.txt.i_line_count
          /\ \A r \in {ReadFrom(p_sys.txt.i_line)} :
                r.rc = VLC_SUCCESS => r.i_line > p_sys.txt.i_line
    /\ pc = "open" => p_sys.i_subtitles <= Len(job.file)

\* what the reader returns when called at the line the session is at, the
\* subtitle_t it is to fill holding junk
ReadInto(junk) ==
    pf_read(p_sys.i_type, ReaderState(p_sys, sub_fps, statics), FreshSlot(junk),
            NoFault, p_sys.i_subtitles)

\* C24: the start and the stop of a cue a reader returns are assigned in the
\* call, from a timing line or marker it read: they are the same whatever the
\* subtitle_t held before the call, and the call reads no value that was
\* never set; an MPSub "FORMAT=" line and AQTitle text with no "-->>" line
\* give no cue
C24_CuesAreTimed ==
    pc = "parse" =>
        \A r \in {ReadInto(Min(Junk))}, q \in {ReadInto(Max(Junk))} :
            r.rc = VLC_SUCCESS =>
                /\ r.sub.i_start = q.sub.i_start
                /\ r.sub.i_stop = q.sub.i_stop

\* C25: when ParseJSS computes the times of a cue, the "#T" and "#S" lines
\* before it read, the jss_time_resolution it divides by is not zero
C25_JssResolutionNotZero ==
    (pc = "parse" /\ p_sys.i_type = SUB_TYPE_JACOSUB) =>
        \A r \in {ReadInto(0)} :
            r.rc = VLC_SUCCESS => r.d.jss_time_resolution # 0

=============================================================================
